---- MODULE Spec2Model ----
(***************************************************************************)
(* Model of the snorkel-conditions-checker: the two tide adapters          *)
(* (services/stormglass.ts, services/worldTides.ts), the Open-Meteo        *)
(* aggregator (services/openMeteo.ts) and the request flow of App.tsx      *)
(* (fetchAndScore, findNearbySpotsWithData).                               *)
(*                                                                         *)
(* Conventions.                                                            *)
(*   - A number that may be missing is a sequence: << >> is null or        *)
(*     undefined, <<v>> is the finite number v, <<0, 0>> is a non-finite   *)
(*     number (NaN, an infinity, a value that is no number).               *)
(*   - Lengths are in tenths of a metre (0.6 m is 6), instants in          *)
(*     milliseconds.                                                       *)
(*   - Sequences are 1-based: index i here is index i-1 in the source.     *)
(*   - A text (an error message, a provider's reason) is the sequence of   *)
(*     its lower-cased words.                                              *)
(***************************************************************************)
EXTENDS Integers, Sequences, FiniteSets, TLC

VARIABLES
    tideIn,       \* SpecTide: the adapter's input (provider, payload, clock)
    tideOut,      \* SpecTide: << >> before the adapter ran, <<result>> after
    env,          \* import.meta.env: which tide credentials are configured
    fcPc,         \* fetchConditions: "idle", "marine", "marineRetry", "await", "done"
    marineWaves,  \* fetchConditions: << >> or <<hourly block of the marine fetch>>
    weatherP,     \* the promise of fetchOpenMeteo(WEATHER_URL, ...)
    tideP,        \* the promise of fetchTideConditions(coords)
    fcResult,     \* the promise fetchConditions returned
    requests,     \* history: the network requests made, in the order made
    answers,      \* history: the answers received, in the order received
    hasData,      \* << >> or <<what the caller's hasConditionsData(...) returned>>
    state,        \* App: the RequestState (status, message, data)
    suggestions,  \* App: the SpotSuggestion list shown
    selected,     \* App: << >> or <<the selected LocationOption>>
    options,      \* App: the LocationOption list of the last geocoding
    appPc,        \* App: "idle", "geocode", "fetch", "probe", "done"
    origin,       \* fetchAndScore: << >> or <<its location argument>>
    fallback,     \* fetchAndScore: its fallback argument
    candidates,   \* findNearbySpotsWithData: the sorted candidates
    probeIndex,   \* findNearbySpotsWithData: the candidate being probed
    results,      \* findNearbySpotsWithData: the candidates collected
    fetchLog,     \* history: the fetchConditions calls of this fetchAndScore
    calls,        \* App with overlapping requests: the runSearch / fetchAndScore calls made
    rateIn,       \* SpecScore, SpecRating: << >> or the input of the rating function
    rateOut       \* SpecScore, SpecRating: << >> or <<what the function returned>>

tideVars == <<tideIn, tideOut>>
aggVars == <<fcPc, marineWaves, weatherP, tideP, fcResult, requests, answers, hasData>>
appVars == <<state, suggestions, selected, options, appPc, origin, fallback,
             candidates, probeIndex, results, fetchLog, calls>>
ratingVars == <<rateIn, rateOut>>
vars == <<env, tideVars, aggVars, appVars, ratingVars>>

----------------------------------------------------------------------------
(* Bounds of the model *)

MaxSeries == 3      \* longest tide series a provider answers with

----------------------------------------------------------------------------
(* Values *)

Null == << >>
Some(v) == <<v>>
NaN == <<0, 0>>
\* Number.isFinite
IsFinite(x) == Len(x) = 1
Abs(x) == IF x < 0 THEN -x ELSE x

\* a > b and a < b of JavaScript on possibly non-finite numbers: a comparison
\* with undefined / NaN is false
Gt(a, b) == IsFinite(a) /\ IsFinite(b) /\ a[1] > b[1]
Lt(a, b) == IsFinite(a) /\ IsFinite(b) /\ a[1] < b[1]

\* instants of the samples a provider returns and of the clock (ms); the
\* clock can fall halfway between two samples
SampleTimes == {0, 1000, 2000}
NowTimes == {0, 500, 1000, 1500, 2000}
\* heights of tide samples (0.1 m): on both sides of the cut points of the
\* magnitude heuristic, and a non-finite height
TideHeights == {NaN, Some(-2), Some(1), Some(7)}

SeqsUpTo(S, n) == UNION {[1..k -> S] : k \in 0..n}

----------------------------------------------------------------------------
(* Array helpers *)

\* Array.prototype.sort with the comparator (a, b) => key(a) - key(b): a
\* stable ascending sort. keys[i] is the key of element i; the result lists
\* the indices of the elements in sorted order.
RECURSIVE InsertIndex(_, _, _)
InsertIndex(sorted, x, keys) ==
    IF sorted = << >> THEN <<x>>
    ELSE IF keys[x] < keys[sorted[1]]
         THEN <<x>> \o sorted
         ELSE <<sorted[1]>> \o InsertIndex(Tail(sorted), x, keys)

RECURSIVE SortedIndices(_, _)
SortedIndices(keys, n) ==
    IF n = 0 THEN << >>
    ELSE InsertIndex(SortedIndices(keys, n - 1), n, keys)

\* no sort at all
SortByKeys_asReceived(s, keys) == s

SortByKeys(s, keys) ==
    LET perm == SortedIndices(keys, Len(s))
    IN  [i \in 1..Len(s) |-> s[perm[i]]]

\* the scan in which a later sample with an equal delta wins
RECURSIVE ScanNearest_lastWins(_, _, _, _, _)
ScanNearest_lastWins(times, now, i, bestIndex, bestDelta) ==
    IF i > Len(times) THEN bestIndex
    ELSE LET delta == Abs(times[i] - now)
         IN  IF delta <= bestDelta
             THEN ScanNearest_lastWins(times, now, i + 1, i, delta)
             ELSE ScanNearest_lastWins(times, now, i + 1, bestIndex, bestDelta)

\* the loop "for (i = 1; i < n; i += 1) if (delta < bestDelta) {...}"
RECURSIVE ScanNearest(_, _, _, _, _)
ScanNearest(times, now, i, bestIndex, bestDelta) ==
    IF i > Len(times) THEN bestIndex
    ELSE LET delta == Abs(times[i] - now)
         IN  IF delta < bestDelta
             THEN ScanNearest(times, now, i + 1, i, delta)
             ELSE ScanNearest(times, now, i + 1, bestIndex, bestDelta)

\* index of the sample nearest to now, times non-empty
NearestIndex(times, now) ==
    ScanNearest(times, now, 2, 1, Abs(times[1] - now))

----------------------------------------------------------------------------
(* Promises *)

NotStarted == [status |-> "none", value |-> << >>, reason |-> << >>]
Pending == [status |-> "pending", value |-> << >>, reason |-> << >>]
Fulfilled(v) == [status |-> "fulfilled", value |-> v, reason |-> << >>]
Rejected(msg) == [status |-> "rejected", value |-> << >>, reason |-> msg]

\* message of the TypeError a rejected fetch() carries
TransportError == <<"failed", "to", "fetch">>
\* message of the SyntaxError a failed response.json() carries
JsonSyntaxError == <<"unexpected", "token", "in", "json">>

----------------------------------------------------------------------------
(* services/stormglass.ts *)

\* a mutant of sgGetTideState: the extremum tests are not strict
sgGetTideState_nonStrict(previous, current, next) ==
    IF previous = Null \/ next = Null THEN "unknown"
    ELSE IF ~Lt(current.sg, previous[1].sg) /\ ~Lt(current.sg, next[1].sg)
         THEN "high"
    ELSE IF ~Gt(current.sg, previous[1].sg) /\ ~Gt(current.sg, next[1].sg)
         THEN "low"
    ELSE IF Gt(next[1].sg, current.sg) THEN "rising"
    ELSE IF Lt(next[1].sg, current.sg) THEN "falling"
    ELSE "unknown"

\* getTideState of stormglass.ts; previous and next are << >> or <<point>>
sgGetTideState(previous, current, next) ==
    IF previous = Null \/ next = Null THEN "unknown"
    ELSE IF Gt(current.sg, previous[1].sg) /\ Gt(current.sg, next[1].sg)
         THEN "high"
    ELSE IF Lt(current.sg, previous[1].sg) /\ Lt(current.sg, next[1].sg)
         THEN "low"
    ELSE IF Gt(next[1].sg, current.sg) THEN "rising"
    ELSE IF Lt(next[1].sg, current.sg) THEN "falling"
    ELSE "unknown"

\* samples of a Stormglass payload: {time, sg}
SgPoint(t, h) == [time |-> t, sg |-> h]

\* the part of fetchTideConditions after the payload was found non-empty:
\* sort, nearest sample, neighbours, exposed series, result. points and
\* bestIndex are the function's locals of the same names.
sgTideFromData(data, nowMs) ==
    LET points == SortByKeys(data, [i \in 1..Len(data) |-> data[i].time])
        bestIndex == NearestIndex([i \in 1..Len(points) |-> points[i].time], nowMs)
        current == points[bestIndex]
        previous == IF bestIndex > 1 THEN Some(points[bestIndex - 1]) ELSE Null
        next == IF bestIndex < Len(points) THEN Some(points[bestIndex + 1]) ELSE Null
        tidePoints == [i \in 1..Len(points) |->
                          [time |-> points[i].time, heightMeters |-> points[i].sg]]
    IN  [condition |-> [heightMeters |-> IF IsFinite(current.sg) THEN current.sg ELSE Null,
                        state |-> sgGetTideState(previous, current, next)],
         details |-> [points |-> SelectSeq(tidePoints, LAMBDA p : IsFinite(p.heightMeters))],
         source |-> "Stormglass Tide",
         heights |-> [i \in 1..Len(points) |-> points[i].sg],
         bestIndex |-> bestIndex]

\* answers of the Stormglass endpoint: the transport failed, or a response
\* with a status and a body that is unparsable or parsed ({data?: [...]})
SgResponses(series) ==
    {[transport |-> "reject", ok |-> FALSE, parsed |-> FALSE, data |-> << >>]}
    \cup [transport : {"ok"}, ok : BOOLEAN, parsed : {FALSE}, data : {<< >>}]
    \cup [transport : {"ok"}, ok : BOOLEAN, parsed : {TRUE}, data : series]

\* fetchTideConditions of stormglass.ts from the await of fetch on: how the
\* promise it returned settles for an answer of the provider
sgSettle(resp, nowMs) ==
    IF resp.transport = "reject" THEN Rejected(TransportError)
    ELSE IF ~resp.ok THEN Fulfilled(Null)
    ELSE IF ~resp.parsed THEN Rejected(JsonSyntaxError)
    ELSE IF Len(resp.data) = 0 THEN Fulfilled(Null)
    ELSE Fulfilled(Some(sgTideFromData(resp.data, nowMs)))

----------------------------------------------------------------------------
(* services/worldTides.ts *)

\* getTideState of worldTides.ts
wtGetTideState(previous, current, next) ==
    IF previous = Null \/ next = Null THEN "unknown"
    ELSE IF Gt(current.height, previous[1].height) /\ Gt(current.height, next[1].height)
         THEN "high"
    ELSE IF Lt(current.height, previous[1].height) /\ Lt(current.height, next[1].height)
         THEN "low"
    ELSE IF Gt(next[1].height, current.height) THEN "rising"
    ELSE IF Lt(next[1].height, current.height) THEN "falling"
    ELSE "unknown"

\* samples of a WorldTides payload: {dt?, date?, height}; date is the
\* instant its text denotes, dt is in seconds
WtPoint(date, dt, h) == [date |-> date, dt |-> dt, height |-> h]

MsPerSecond == 1000

\* the instant of new Date(toIsoTimestamp(point)).getTime()
toIsoTimestamp(point, nowMs) ==
    IF point.date # Null THEN point.date[1]
    ELSE IF point.dt # Null THEN point.dt[1] * MsPerSecond
    ELSE nowMs

wtTideFromData(heights, nowMs) ==
    LET points == SortByKeys(heights,
                      [i \in 1..Len(heights) |-> toIsoTimestamp(heights[i], nowMs)])
        times == [i \in 1..Len(points) |-> toIsoTimestamp(points[i], nowMs)]
        bestIndex == NearestIndex(times, nowMs)
        current == points[bestIndex]
        previous == IF bestIndex > 1 THEN Some(points[bestIndex - 1]) ELSE Null
        next == IF bestIndex < Len(points) THEN Some(points[bestIndex + 1]) ELSE Null
        tidePoints == [i \in 1..Len(points) |->
                          [time |-> times[i], heightMeters |-> points[i].height]]
    IN  [condition |-> [heightMeters |->
                            IF IsFinite(current.height) THEN current.height ELSE Null,
                        state |-> wtGetTideState(previous, current, next)],
         details |-> [points |-> SelectSeq(tidePoints, LAMBDA p : IsFinite(p.heightMeters))],
         source |-> "WorldTides",
         heights |-> [i \in 1..Len(points) |-> points[i].height],
         bestIndex |-> bestIndex]

\* answers of the WorldTides endpoint; a parsed body carries its own status
\* field and heights
WtResponses(series) ==
    {[transport |-> "reject", ok |-> FALSE, parsed |-> FALSE, status200 |-> FALSE,
      data |-> << >>]}
    \cup [transport : {"ok"}, ok : BOOLEAN, parsed : {FALSE}, status200 : {FALSE},
          data : {<< >>}]
    \cup [transport : {"ok"}, ok : BOOLEAN, parsed : {TRUE}, status200 : BOOLEAN,
          data : series]

wtSettle(resp, nowMs) ==
    IF resp.transport = "reject" THEN Rejected(TransportError)
    ELSE IF ~resp.ok THEN Fulfilled(Null)
    ELSE IF ~resp.parsed \/ ~resp.status200 \/ Len(resp.data) = 0 THEN Fulfilled(Null)
    ELSE Fulfilled(Some(wtTideFromData(resp.data, nowMs)))

----------------------------------------------------------------------------
(* services/openMeteo.ts: texts *)

HasWord(text, W) == \E i \in 1..Len(text) : text[i] \in W
HasPhrase(text, w1, w2) ==
    \E i \in 1..(Len(text) - 1) : text[i] = w1 /\ text[i + 1] = w2

\* /no data|not available|land/i.test(reason)
MatchesNoCoverage(text) ==
    \/ HasPhrase(text, "no", "data")
    \/ HasPhrase(text, "not", "available")
    \/ HasWord(text, {"land", "island", "inland"})

\* /swell/i.test(error.message)
MatchesSwell(text) ==
    HasWord(text, {"swell", "swell_wave_height", "swell_wave_period",
                   "swell_wave_direction"})

\* the sentinel of "no coverage"; App.tsx compares a message with it exactly
NoDataMessage == <<"NO_DATA">>
FailedToFetchMessage == <<"failed", "to", "fetch", "open-meteo", "data">>
FailedToParseMessage == <<"failed", "to", "parse", "open-meteo", "response">>
ReturnedErrorMessage == <<"open-meteo", "returned", "an", "error">>
MissingHourlyMessage == <<"open-meteo", "response", "missing", "hourly", "data">>

\* reasons a provider gives: about swell fields only, about swell fields in
\* the words of no coverage, about no coverage only, about neither
Reasons ==
    { <<"cannot", "initialize", "variable", "swell_wave_height">>,
      <<"swell_wave_height", "is", "not", "available">>,
      <<"no", "data", "for", "this", "location">>,
      <<"too", "many", "requests">> }

----------------------------------------------------------------------------
(* services/openMeteo.ts: series and snapshot *)

\* "x ?? []" on an array that may be missing (<< >> or <<array>>)
OrEmpty(x) == IF x = Null THEN << >> ELSE x[1]
\* "a ?? b" on numbers that may be null
Coalesce(a, b) == IF a # Null THEN a ELSE b

\* pickNearestValue that takes the first number of the series when the
\* nearest sample holds none
pickNearestValue_substitutes(times, values, now) ==
    IF Len(times) = 0 \/ Len(values) = 0 THEN Null
    ELSE LET bestIndex == NearestIndex(times, now)
             value == IF bestIndex <= Len(values) THEN values[bestIndex] ELSE Null
             numbers == SelectSeq(values, IsFinite)
         IN  IF IsFinite(value) THEN value
             ELSE IF Len(numbers) > 0 THEN numbers[1] ELSE Null

pickNearestValue(times, values, now) ==
    IF Len(times) = 0 \/ Len(values) = 0 THEN Null
    ELSE LET bestIndex == NearestIndex(times, now)
             value == IF bestIndex <= Len(values) THEN values[bestIndex] ELSE Null
         IN  IF IsFinite(value) THEN value ELSE Null

\* getTideState of openMeteo.ts: the magnitude heuristic (0.6 m, 0.1 m, -0.2 m)
\* getTideState with inclusive bounds
getTideState_inclusive(value) ==
    IF value = Null THEN "unknown"
    ELSE IF value[1] >= 6 THEN "high"
    ELSE IF value[1] >= 1 THEN "rising"
    ELSE IF value[1] >= -2 THEN "falling"
    ELSE "low"

getTideState(value) ==
    IF value = Null THEN "unknown"
    ELSE IF value[1] > 6 THEN "high"
    ELSE IF value[1] > 1 THEN "rising"
    ELSE IF value[1] > -2 THEN "falling"
    ELSE "low"

\* tide is << >> or <<TideCondition>>; now is the clock read by Date.now()
\* the wave height falling back to the swell whenever it is falsy
combinedWaveHeight_truthy(waveHeight, swellHeight) ==
    IF waveHeight # Null /\ waveHeight # Some(0) THEN waveHeight
    ELSE IF swellHeight # Null THEN swellHeight ELSE Null

\* const combinedWaveHeight of buildConditions
combinedWaveHeight(waveHeight, swellHeight) ==
    IF waveHeight # Null THEN waveHeight
    ELSE IF swellHeight # Null THEN swellHeight ELSE Null

buildConditions(marine, weather, tide, now) ==
    LET mt == OrEmpty(marine.time)
        wt == OrEmpty(weather.time)
        waveHeight == pickNearestValue(mt, OrEmpty(marine.wave_height), now)
        wavePeriod == pickNearestValue(mt, OrEmpty(marine.wave_period), now)
        waveDirection == pickNearestValue(mt, OrEmpty(marine.wave_direction), now)
        swellHeight == pickNearestValue(mt, OrEmpty(marine.swell_wave_height), now)
        swellPeriod == pickNearestValue(mt, OrEmpty(marine.swell_wave_period), now)
        swellDirection ==
            pickNearestValue(mt, OrEmpty(marine.swell_wave_direction), now)
        tideHeight == IF tide = Null THEN Null ELSE tide[1].heightMeters
        tideState == IF tide = Null THEN "unknown" ELSE tide[1].state
        windSpeed == pickNearestValue(wt, OrEmpty(weather.wind_speed_10m), now)
        windGust == pickNearestValue(wt, OrEmpty(weather.wind_gusts_10m), now)
        windDirection == pickNearestValue(wt, OrEmpty(weather.wind_direction_10m), now)
        precipitation == pickNearestValue(wt, OrEmpty(weather.precipitation), now)
        cloudCover == pickNearestValue(wt, OrEmpty(weather.cloud_cover), now)
    IN  [waves |-> [heightMeters |-> combinedWaveHeight(waveHeight, swellHeight),
                    periodSeconds |-> Coalesce(wavePeriod, swellPeriod),
                    directionDegrees |-> Coalesce(waveDirection, swellDirection)],
         wind |-> [speedMetersPerSecond |-> windSpeed,
                   gustMetersPerSecond |-> windGust,
                   directionDegrees |-> windDirection],
         tide |-> [heightMeters |-> tideHeight,
                   state |-> IF tideState = "unknown"
                             THEN getTideState(tideHeight) ELSE tideState],
         weather |-> [temperatureC |-> Null,
                      precipitationMmPerHour |-> precipitation,
                      cloudCoverPercent |-> cloudCover],
         visibility |-> Null]

\* the hourly block of a marine answer. Missing arrays are << >>.
MarineHourly(time, wh, wp, wd, sh, sp, sd) ==
    [time |-> time, wave_height |-> wh, wave_period |-> wp, wave_direction |-> wd,
     swell_wave_height |-> sh, swell_wave_period |-> sp, swell_wave_direction |-> sd]

WeatherHourly(time, ws, wg, wd, pr, cc) ==
    [time |-> time, wind_speed_10m |-> ws, wind_gusts_10m |-> wg,
     wind_direction_10m |-> wd, precipitation |-> pr, cloud_cover |-> cc]

HourlyTimes == Some(<<0, 1000>>)
AllNullValues == Some(<<Null, Null>>)

\* hourly blocks the marine provider answers with: a point without coverage
\* (every value null), waves that are flat now and 0.4 m later over a swell of
\* 0.8 m, swell only,
\* and a block without its time array. A request for the reduced field set
\* is answered without swell arrays.
MarineHourlies(fields) ==
    LET swell(x) == IF fields = "full" THEN x ELSE Null
    IN  { MarineHourly(HourlyTimes, AllNullValues, AllNullValues, AllNullValues,
                       swell(AllNullValues), swell(AllNullValues), swell(AllNullValues)),
          MarineHourly(HourlyTimes, Some(<<Some(0), Some(4)>>), Some(<<Some(6), Some(6)>>),
                       Null, swell(Some(<<Some(8), Some(8)>>)), swell(AllNullValues), Null),
          MarineHourly(HourlyTimes, AllNullValues, AllNullValues, AllNullValues,
                       swell(Some(<<Some(8), Some(8)>>)), swell(Some(<<Some(9)>>)),
                       swell(Some(<<NaN, Some(90)>>))),
          MarineHourly(Null, Null, Null, Null, Null, Null, Null) }

\* hourly blocks of the weather provider: every value null, calm now and
\* windy later, gusts only, and a block without its time array
WeatherHourlies ==
    { WeatherHourly(HourlyTimes, AllNullValues, AllNullValues, AllNullValues,
                    AllNullValues, AllNullValues),
      WeatherHourly(HourlyTimes, Some(<<Some(0), Some(3)>>), Null, Some(<<Some(180), Null>>),
                    Some(<<Some(0), Some(5)>>), Some(<<Some(0), Some(50)>>)),
      WeatherHourly(HourlyTimes, AllNullValues, Some(<<Some(5), Some(5)>>), AllNullValues,
                    AllNullValues, AllNullValues),
      WeatherHourly(Null, Null, Null, Null, Null, Null) }

\* answers of an Open-Meteo endpoint: the transport failed, or a response with
\* a status and a body that is unparsable, an error body ({error: true,
\* reason?}) or a data body ({hourly?})
OmResponses(hourlies) ==
    {[transport |-> "reject", ok |-> FALSE, parsed |-> FALSE, error |-> FALSE,
      reason |-> Null, hourly |-> Null]}
    \cup [transport : {"ok"}, ok : BOOLEAN, parsed : {FALSE}, error : {FALSE},
          reason : {Null}, hourly : {Null}]
    \cup [transport : {"ok"}, ok : BOOLEAN, parsed : {TRUE}, error : {TRUE},
          reason : {Null} \cup {Some(r) : r \in Reasons}, hourly : {Null}]
    \cup [transport : {"ok"}, ok : BOOLEAN, parsed : {TRUE}, error : {FALSE},
          reason : {Null}, hourly : {Null} \cup {Some(h) : h \in hourlies}]

\* a mutant of fetchOpenMeteo: the status of the response is not tested
fetchOpenMeteo_ignoresStatus(resp) ==
    IF resp.transport = "reject" THEN Rejected(TransportError)
    ELSE IF ~resp.parsed THEN Rejected(FailedToParseMessage)
    ELSE IF resp.error
    THEN Rejected(IF resp.reason # Null THEN resp.reason[1] ELSE ReturnedErrorMessage)
    ELSE IF resp.hourly = Null \/ resp.hourly[1].time = Null
    THEN Rejected(MissingHourlyMessage)
    ELSE Fulfilled(resp.hourly)

\* fetchOpenMeteo from the await of fetch on: how its promise settles for an
\* answer of the provider
fetchOpenMeteo(resp) ==
    IF resp.transport = "reject" THEN Rejected(TransportError)
    ELSE IF ~resp.ok
    THEN LET reason == IF resp.parsed /\ resp.reason # Null
                       THEN resp.reason[1] ELSE FailedToFetchMessage
         IN  IF MatchesNoCoverage(reason) THEN Rejected(NoDataMessage)
             ELSE Rejected(reason)
    ELSE IF ~resp.parsed THEN Rejected(FailedToParseMessage)
    ELSE IF resp.error
    THEN Rejected(IF resp.reason # Null THEN resp.reason[1] ELSE ReturnedErrorMessage)
    ELSE IF resp.hourly = Null \/ resp.hourly[1].time = Null
    THEN Rejected(MissingHourlyMessage)
    ELSE Fulfilled(resp.hourly)

----------------------------------------------------------------------------
(* services/openMeteo.ts: fetchConditions *)

\* a mutant of PromiseAll: fulfilled as soon as the first promise is
PromiseAll_firstOnly(p, q) ==
    IF p.status = "rejected" THEN p
    ELSE IF q.status = "rejected" THEN q
    ELSE IF p.status = "fulfilled" THEN Fulfilled(<<p.value, q.value>>)
    ELSE Pending

\* Promise.all([p, q]) once one of p, q has just settled and Promise.all was
\* pending: rejected with the rejection, fulfilled when both are fulfilled
PromiseAll(p, q) ==
    IF p.status = "rejected" THEN p
    ELSE IF q.status = "rejected" THEN q
    ELSE IF p.status = "fulfilled" /\ q.status = "fulfilled"
    THEN Fulfilled(<<p.value, q.value>>)
    ELSE Pending

\* the ConditionsResponse fetchConditions returns; tideData is << >> or
\* <<TideDataResult>>
ConditionsResponse(marine, weather, tideData, now) ==
    [conditions |->
        buildConditions(marine, weather,
                        IF tideData = Null THEN Null ELSE Some(tideData[1].condition),
                        now),
     sources |-> [marine |-> "Open-Meteo Marine", weather |-> "Open-Meteo Weather",
                  tide |-> IF tideData = Null THEN Null ELSE Some(tideData[1].source)],
     tide |-> IF tideData = Null THEN Null ELSE Some(tideData[1].details)]

\* tide series the Stormglass endpoint answers with: empty, one sample, a
\* high water between two lower samples, non-finite heights
AggTideSeries ==
    { << >>,
      <<SgPoint(1000, Some(7))>>,
      <<SgPoint(0, Some(1)), SgPoint(1000, Some(7)), SgPoint(2000, Some(1))>>,
      <<SgPoint(2000, NaN), SgPoint(0, NaN)>> }

\* what an answer of an Open-Meteo endpoint looks like
ResponseKind(resp) ==
    IF resp.transport = "reject" THEN "transport"
    ELSE IF ~resp.ok THEN "status"
    ELSE IF ~resp.parsed THEN "unparsable"
    ELSE IF resp.error THEN "error"
    ELSE IF resp.hourly = Null THEN "no-hourly"
    ELSE IF resp.hourly[1].time = Null THEN "no-time"
    ELSE "series"

\* an entry of the history of answers: the endpoint, what the answer looked
\* like, whether the fetch
\* failed, and the reason text the provider gave for the failure, if any
Answer(endpoint, resp, outcome) ==
    [endpoint |-> endpoint,
     kind |-> ResponseKind(resp),
     failed |-> outcome.status = "rejected",
     reason |-> IF outcome.status = "rejected" /\ resp.transport = "ok" /\ resp.parsed
                THEN resp.reason ELSE Null,
     message |-> outcome.reason]

\* App.tsx: the value of a ?? chain over xs, << >> when every operand is null
FirstNonNull(xs) ==
    IF \A i \in 1..Len(xs) : xs[i] = Null THEN Null
    ELSE xs[CHOOSE i \in 1..Len(xs) :
                xs[i] # Null /\ \A j \in 1..(i - 1) : xs[j] = Null]

\* Boolean(x) of a value that is null or a finite number
Truthy(x) == x # Null /\ x[1] # 0

\* App.tsx: hasConditionsData(conditions)
hasConditionsData(conditions) ==
    Truthy(FirstNonNull(<<conditions.waves.heightMeters,
                          conditions.waves.periodSeconds,
                          conditions.wind.speedMetersPerSecond,
                          conditions.weather.precipitationMmPerHour,
                          conditions.weather.cloudCoverPercent,
                          conditions.tide.heightMeters>>))

InitAgg ==
    /\ env \in [stormglassKey : BOOLEAN, worldTidesKey : BOOLEAN]
    /\ fcPc = "idle"
    /\ marineWaves = Null
    /\ weatherP = NotStarted
    /\ tideP = NotStarted
    /\ fcResult = NotStarted
    /\ requests = << >>
    /\ answers = << >>
    /\ hasData = << >>

\* fetchConditions(coords) up to its first await: the full marine request
FetchConditionsCall ==
    /\ fcPc = "idle"
    /\ fcPc' = "marine"
    /\ fcResult' = Pending
    /\ requests' = <<"marine-full">>
    /\ UNCHANGED <<env, marineWaves, weatherP, tideP, answers, hasData, tideVars, appVars, ratingVars>>

\* the continuation after the marine fetch returned m: weather and tide are
\* both called before Promise.all is awaited. fetchTideConditions without
\* a key returns before any request.
FanOut(m, log) ==
    /\ marineWaves' = m
    /\ fcPc' = "await"
    /\ weatherP' = Pending
    /\ tideP' = IF env.stormglassKey THEN Pending ELSE Fulfilled(Null)
    /\ requests' = requests \o <<"weather">>
                     \o (IF env.stormglassKey THEN <<"stormglass">> ELSE << >>)
    /\ answers' = log
    /\ UNCHANGED <<env, fcResult, hasData>>

\* a fetchConditions that asks for the weather although the marine fetch
\* failed
FailConditions_stillAsks(msg, log) ==
    /\ fcPc' = "done"
    /\ fcResult' = Rejected(msg)
    /\ answers' = log
    /\ requests' = Append(requests, "weather")
    /\ UNCHANGED <<env, marineWaves, weatherP, tideP, hasData>>

FailConditions(msg, log) ==
    /\ fcPc' = "done"
    /\ fcResult' = Rejected(msg)
    /\ answers' = log
    /\ UNCHANGED <<env, marineWaves, weatherP, tideP, requests, hasData>>

\* the first marine request settles; a failure whose message mentions swell
\* is retried with the reduced field set
MarineSettle ==
    /\ fcPc = "marine"
    /\ \E resp \in OmResponses(MarineHourlies("full")) :
          LET out == fetchOpenMeteo(resp)
              log == Append(answers, Answer("marine-full", resp, out))
          IN  IF out.status = "fulfilled" THEN FanOut(out.value, log)
              ELSE IF MatchesSwell(out.reason)
              THEN /\ fcPc' = "marineRetry"
                   /\ requests' = Append(requests, "marine-reduced")
                   /\ answers' = log
                   /\ UNCHANGED <<env, marineWaves, weatherP, tideP, fcResult, hasData>>
              ELSE FailConditions(out.reason, log)
    /\ UNCHANGED <<tideVars, appVars, ratingVars>>

MarineRetrySettle ==
    /\ fcPc = "marineRetry"
    /\ \E resp \in OmResponses(MarineHourlies("reduced")) :
          LET out == fetchOpenMeteo(resp)
              log == Append(answers, Answer("marine-reduced", resp, out))
          IN  IF out.status = "fulfilled" THEN FanOut(out.value, log)
              ELSE FailConditions(out.reason, log)
    /\ UNCHANGED <<tideVars, appVars, ratingVars>>

\* what fetchConditions does when Promise.all settles as all
AfterAll(all, now) ==
    IF fcPc # "await" \/ all.status = "pending"
    THEN UNCHANGED <<fcPc, fcResult>>
    ELSE /\ fcPc' = "done"
         /\ fcResult' =
              IF all.status = "rejected" THEN Rejected(all.reason)
              ELSE Fulfilled(Some(ConditionsResponse(marineWaves[1], all.value[1][1],
                                                     all.value[2], now)))

\* the weather request settles. It can settle after fetchConditions failed:
\* Promise.all does not cancel it.
WeatherSettle ==
    /\ weatherP.status = "pending"
    /\ \E resp \in OmResponses(WeatherHourlies), now \in NowTimes :
          LET out == fetchOpenMeteo(resp)
          IN  /\ weatherP' = out
              /\ answers' = Append(answers, Answer("weather", resp, out))
              /\ AfterAll(PromiseAll(out, tideP), now)
    /\ UNCHANGED <<env, marineWaves, tideP, requests, hasData, tideVars, appVars, ratingVars>>

\* the Stormglass request settles
TideSettle ==
    /\ tideP.status = "pending"
    /\ \E resp \in SgResponses(AggTideSeries), nowMs \in NowTimes, now \in NowTimes :
          LET out == sgSettle(resp, nowMs)
          IN  /\ nowMs <= now
              /\ tideP' = out
              /\ answers' = Append(answers,
                     [endpoint |-> "stormglass", failed |-> out.status = "rejected",
                      reason |-> Null, message |-> out.reason,
                      ok |-> resp.ok,
                      body |-> IF resp.transport = "reject" THEN "none"
                               ELSE IF ~resp.parsed THEN "unparsable"
                               ELSE IF Len(resp.data) = 0 THEN "empty"
                               ELSE "series"])
              /\ AfterAll(PromiseAll(weatherP, out), now)
    /\ UNCHANGED <<env, marineWaves, weatherP, requests, hasData, tideVars, appVars, ratingVars>>

\* the caller of fetchConditions (fetchAndScore, findNearbySpotsWithData)
\* resumes with the snapshot and tests it with hasConditionsData
CallerChecksData ==
    /\ fcPc = "done"
    /\ fcResult.status = "fulfilled"
    /\ hasData = << >>
    /\ hasData' = <<hasConditionsData(fcResult.value[1].conditions)>>
    /\ UNCHANGED <<env, fcPc, marineWaves, weatherP, tideP, fcResult, requests,
                   answers, tideVars, appVars, ratingVars>>

NextAgg ==
    \/ FetchConditionsCall
    \/ MarineSettle
    \/ MarineRetrySettle
    \/ WeatherSettle
    \/ TideSettle
    \/ CallerChecksData

IdleTide == tideIn = << >> /\ tideOut = << >>

\* no search was made in the App
IdleApp ==
    /\ state = [status |-> "idle", message |-> << >>, data |-> << >>]
    /\ suggestions = << >>
    /\ selected = << >>
    /\ options = << >>
    /\ appPc = "idle"
    /\ origin = << >>
    /\ fallback = << >>
    /\ candidates = << >>
    /\ probeIndex = 0
    /\ results = << >>
    /\ fetchLog = << >>
    /\ calls = << >>

\* no rating function is applied
IdleRating == rateIn = << >> /\ rateOut = << >>

\* no tide key is configured
IdleEnv == env = [stormglassKey |-> FALSE, worldTidesKey |-> FALSE]

InitAggSpec == InitAgg /\ IdleTide /\ IdleApp /\ IdleRating

SpecAgg == InitAggSpec /\ [][NextAgg]_vars

----------------------------------------------------------------------------
(* SpecTide: a tide adapter applied to a provider's answer *)

\* series of abstract samples <<instant, height>>, in the provider's order
TideSamples == SampleTimes \X TideHeights
TideSeries == SeqsUpTo(TideSamples, MaxSeries) \ {<< >>}

SgData(series) == [i \in 1..Len(series) |-> SgPoint(series[i][1], series[i][2])]

\* the WorldTides payload of a series: every sample dated by its date text,
\* every sample by epoch seconds, or the first sample with neither
WtStyles == {"date", "dt", "undated-first"}
WtData(series, style) ==
    [i \in 1..Len(series) |->
        IF style = "dt"
        THEN WtPoint(Null, Some(series[i][1] \div MsPerSecond), series[i][2])
        ELSE IF style = "undated-first" /\ i = 1
        THEN WtPoint(Null, Null, series[i][2])
        ELSE WtPoint(Some(series[i][1]), Null, series[i][2])]

InitTide ==
    /\ tideIn \in
          [provider : {"stormglass"}, data : {SgData(s) : s \in TideSeries},
           nowMs : NowTimes]
          \cup
          [provider : {"worldtides"},
           data : {WtData(s, st) : s \in TideSeries, st \in WtStyles},
           nowMs : NowTimes]
    /\ tideOut = << >>

IdleAgg ==
    /\ fcPc = "idle"
    /\ marineWaves = Null
    /\ weatherP = NotStarted
    /\ tideP = NotStarted
    /\ fcResult = NotStarted
    /\ requests = << >>
    /\ answers = << >>
    /\ hasData = << >>

RunStormglass ==
    /\ tideOut = << >>
    /\ tideIn.provider = "stormglass"
    /\ tideOut' = <<sgTideFromData(tideIn.data, tideIn.nowMs)>>
    /\ UNCHANGED <<tideIn, env, aggVars, appVars, ratingVars>>

RunWorldTides ==
    /\ tideOut = << >>
    /\ tideIn.provider = "worldtides"
    /\ tideOut' = <<wtTideFromData(tideIn.data, tideIn.nowMs)>>
    /\ UNCHANGED <<tideIn, env, aggVars, appVars, ratingVars>>

NextTide == RunStormglass \/ RunWorldTides

InitTideSpec == InitTide /\ IdleEnv /\ IdleAgg /\ IdleApp /\ IdleRating

SpecTide == InitTideSpec /\ [][NextTide]_vars

----------------------------------------------------------------------------
(* The three scans for the sample nearest to now: the two tide adapters and
   pickNearestValue of the Open-Meteo aggregator, which reads its series in
   the order the provider sent it. *)

HourlySeries(series) ==
    [time |-> [i \in 1..Len(series) |-> series[i][1]],
     values |-> [i \in 1..Len(series) |-> series[i][2]]]

\* what one field of an hourly block can hold at a sample: null, something
\* that is no finite number, or a number
HourlyValues == {Null, NaN, Some(1), Some(7)}

\* the time list and the value list of one field: of equal length, the value
\* list one shorter, the value list empty, and no time at all
HourlyInputs ==
    LET full == {HourlySeries(s) :
                    s \in SeqsUpTo(SampleTimes \X HourlyValues, MaxSeries) \ {<< >>}}
    IN  full
        \cup {[time |-> h.time, values |-> SubSeq(h.values, 1, Len(h.values) - 1)] :
                 h \in full}
        \cup {[time |-> h.time, values |-> << >>] : h \in full}
        \cup {[time |-> << >>, values |-> v] : v \in {<< >>, <<Some(1)>>}}

InitNearest ==
    /\ tideIn \in
          [provider : {"stormglass"}, data : {SgData(s) : s \in TideSeries},
           nowMs : NowTimes]
          \cup
          [provider : {"worldtides"},
           data : {WtData(s, st) : s \in TideSeries, st \in WtStyles},
           nowMs : NowTimes]
          \cup
          [provider : {"open-meteo"}, data : HourlyInputs, nowMs : NowTimes]
    /\ tideOut = << >>

PickNearestValueCall ==
    /\ tideOut = << >>
    /\ tideIn.provider = "open-meteo"
    /\ tideOut' = <<[value |-> pickNearestValue(tideIn.data.time, tideIn.data.values,
                                                tideIn.nowMs)]>>
    /\ UNCHANGED <<tideIn, env, aggVars, appVars, ratingVars>>

NextNearest == RunStormglass \/ RunWorldTides \/ PickNearestValueCall

InitNearestSpec == InitNearest /\ IdleEnv /\ IdleAgg /\ IdleApp /\ IdleRating

SpecNearest == InitNearestSpec /\ [][NextNearest]_vars

----------------------------------------------------------------------------
(* Both tide adapters on one series: the Stormglass adapter is given the
   samples as {time, sg} and then the WorldTides adapter the same samples as
   {date, height} or {dt, height}; tideOut collects the two results. *)

InitPair ==
    /\ tideIn \in [provider : {"both"}, series : TideSeries,
                   style : {"date", "dt"}, nowMs : NowTimes]
    /\ tideOut = << >>

PairStormglass ==
    /\ tideIn.provider = "both"
    /\ Len(tideOut) = 0
    /\ tideOut' = <<sgTideFromData(SgData(tideIn.series), tideIn.nowMs)>>
    /\ UNCHANGED <<tideIn, env, aggVars, appVars, ratingVars>>

PairWorldTides ==
    /\ tideIn.provider = "both"
    /\ Len(tideOut) = 1
    /\ tideOut' = Append(tideOut,
                         wtTideFromData(WtData(tideIn.series, tideIn.style),
                                        tideIn.nowMs))
    /\ UNCHANGED <<tideIn, env, aggVars, appVars, ratingVars>>

NextPair == PairStormglass \/ PairWorldTides

InitPairSpec == InitPair /\ IdleEnv /\ IdleAgg /\ IdleApp /\ IdleRating

SpecPair == InitPairSpec /\ [][NextPair]_vars

----------------------------------------------------------------------------
(* services/geocoding.ts and App.tsx: a search, the fetch for the chosen
   place and the nearby-spot search. fetchConditions is a promise that
   settles in one of the ways SpecAgg settles it (OutcomesAgree). The
   searches follow one another: handleRetry and handleSuggestionClick, which
   re-enter fetchAndScore with an option and the options of the last search,
   are not steps of this specification. *)

\* the number of results runSearch asks the geocoder for
GeocodeLimit == 6

\* the number of suggestions at which findNearbySpotsWithData stops probing
NearbyLimit == 3

\* 6371 km * pi / 180, the kilometres of one degree of a great circle
KmPerDegree == 111

\* places on the equator, in the order the geocoder ranks them; their
\* longitudes in degrees
PlaceLongitudes == <<0, 3, -1, 2, -4, 6>>
Place(i) ==
    [id |-> i, coordinates |-> [latitude |-> 0, longitude |-> PlaceLongitudes[i]]]

\* geocoding.ts: distanceInKm(a, b) for two points of the equator less than
\* 180 degrees apart, where the haversine distance is the arc between them
distanceInKm(a, b) == KmPerDegree * Abs(b.longitude - a.longitude)

\* the option lists geocodeLocation(query, 6) resolves with
GeocodeResults == {[i \in 1..n |-> Place(i)] : n \in 0..GeocodeLimit}

\* how the marine part of fetchConditions ends: the first answer, or the
\* answer to the reduced request after a failure mentioning swell
MarineOutcomes ==
    UNION {LET out == fetchOpenMeteo(resp)
           IN  IF out.status = "rejected" /\ MatchesSwell(out.reason)
               THEN {fetchOpenMeteo(r) : r \in OmResponses(MarineHourlies("reduced"))}
               ELSE {out}
           : resp \in OmResponses(MarineHourlies("full"))}

WeatherOutcomes == {fetchOpenMeteo(resp) : resp \in OmResponses(WeatherHourlies)}

TideOutcomes(e) ==
    IF e.stormglassKey
    THEN {sgSettle(resp, nowMs) : resp \in SgResponses(AggTideSeries), nowMs \in NowTimes}
    ELSE {Fulfilled(Null)}

\* how the promise of fetchConditions(coords) can settle in environment e
fetchConditionsOutcomes(e) ==
    {m \in MarineOutcomes : m.status = "rejected"}
    \cup UNION {
        IF w.status = "rejected" /\ t.status = "rejected" THEN {w, t}
        ELSE LET all == PromiseAll(w, t)
             IN  IF all.status = "rejected" THEN {all}
                 ELSE {Fulfilled(Some(ConditionsResponse(m.value[1], w.value[1],
                                                         t.value, now)))
                       : now \in NowTimes}
        : m \in {x \in MarineOutcomes : x.status = "fulfilled"},
          w \in WeatherOutcomes, t \in TideOutcomes(e)}

\* conditions.ts: the numeric fields of a SnorkelConditions
LeafValues(conditions) ==
    <<conditions.waves.heightMeters, conditions.waves.periodSeconds,
      conditions.waves.directionDegrees, conditions.wind.speedMetersPerSecond,
      conditions.wind.gustMetersPerSecond, conditions.wind.directionDegrees,
      conditions.tide.heightMeters, conditions.weather.temperatureC,
      conditions.weather.precipitationMmPerHour,
      conditions.weather.cloudCoverPercent>>
      \o (IF conditions.visibility = Null THEN << >>
          ELSE <<conditions.visibility[1].rangeMeters>>)

\* the outcomes with and without a Stormglass key
OutcomesWithKey ==
    fetchConditionsOutcomes([stormglassKey |-> TRUE, worldTidesKey |-> FALSE])
OutcomesWithoutKey ==
    fetchConditionsOutcomes([stormglassKey |-> FALSE, worldTidesKey |-> FALSE])
Outcomes(e) == IF e.stormglassKey THEN OutcomesWithKey ELSE OutcomesWithoutKey

\* what a caller's try/catch around fetchConditions observes of an outcome:
\* whether the call failed, whether its snapshot held a value, and what
\* hasConditionsData answered
Observed(out) ==
    [failed |-> out.status = "rejected",
     anyValue |-> /\ out.status = "fulfilled"
                  /\ FirstNonNull(LeafValues(out.value[1].conditions)) # Null,
     accepted |-> /\ out.status = "fulfilled"
                  /\ hasConditionsData(out.value[1].conditions)]

ObservedWithKey == {Observed(out) : out \in OutcomesWithKey}
ObservedWithoutKey == {Observed(out) : out \in OutcomesWithoutKey}
ProbeOutcomes(e) == IF e.stormglassKey THEN ObservedWithKey ELSE ObservedWithoutKey

\* an entry of the history of fetchConditions calls
LogEntry(place, seen) ==
    [place |-> place.id, failed |-> seen.failed, anyValue |-> seen.anyValue,
     accepted |-> seen.accepted]

Loading(text) == [status |-> "loading", message |-> <<text>>, data |-> << >>]
Empty(text) == [status |-> "empty", message |-> <<text>>, data |-> << >>]
Failure(message) == [status |-> "error", message |-> message, data |-> << >>]

\* messages of the errors geocodeLocation throws
GeocodeErrors ==
    { <<"missing", "mapbox", "token">>,
      <<"failed", "to", "fetch", "geocoding", "results">> }

InitApp ==
    /\ env \in [stormglassKey : BOOLEAN, worldTidesKey : {FALSE}]
    /\ IdleApp

\* runSearch(searchQuery) with a query that is not blank, up to its await
RunSearch ==
    /\ appPc \in {"idle", "done"}
    /\ state' = Loading("Searching nearby spots...")
    /\ suggestions' = << >>
    /\ appPc' = "geocode"
    /\ origin' = << >>
    /\ fallback' = << >>
    /\ candidates' = << >>
    /\ probeIndex' = 0
    /\ results' = << >>
    /\ fetchLog' = << >>
    /\ UNCHANGED <<selected, options, calls, env, tideVars, aggVars, ratingVars>>

\* fetchAndScore(location, fallback) up to its await of fetchConditions
fetchAndScoreCall(location, fb) ==
    /\ state' = Loading("Checking live conditions...")
    /\ appPc' = "fetch"
    /\ origin' = <<location>>
    /\ fallback' = fb
    /\ candidates' = << >>
    /\ probeIndex' = 0
    /\ results' = << >>
    /\ fetchLog' = << >>

\* runSearch after geocodeLocation settled: the option named like the query,
\* else the first option, is chosen
GeocodeSettle ==
    /\ appPc = "geocode"
    /\ \/ \E message \in GeocodeErrors :
             /\ state' = Failure(message)
             /\ appPc' = "done"
             /\ UNCHANGED <<selected, options, origin, fallback, candidates,
                            probeIndex, results, fetchLog>>
       \/ /\ options' = << >>
          /\ selected' = << >>
          /\ state' = Empty("No matches found. Try another place name.")
          /\ appPc' = "done"
          /\ UNCHANGED <<origin, fallback, candidates, probeIndex, results, fetchLog>>
       \/ \E locations \in GeocodeResults \ {<< >>} :
             \E chosen \in 1..Len(locations) :
                /\ options' = locations
                /\ selected' = <<locations[chosen]>>
                /\ fetchAndScoreCall(locations[chosen], locations)
    /\ UNCHANGED <<suggestions, calls, env, tideVars, aggVars, ratingVars>>

\* a mutant of NearbyCandidates: the candidates are left in the order of
\* the fallback list
NearbyCandidates_unsorted(o, fb) ==
    LET kept == SelectSeq(fb, LAMBDA option : option.id # o.id)
    IN  [i \in 1..Len(kept) |->
            [id |-> kept[i].id, coordinates |-> kept[i].coordinates,
             distanceKm |-> distanceInKm(o.coordinates, kept[i].coordinates)]]

\* findNearbySpotsWithData: the fallback options other than the origin, each
\* with its distance to the origin, nearest first
NearbyCandidates(o, fb) ==
    LET kept == SelectSeq(fb, LAMBDA option : option.id # o.id)
        spots == [i \in 1..Len(kept) |->
                    [id |-> kept[i].id, coordinates |-> kept[i].coordinates,
                     distanceKm |-> distanceInKm(o.coordinates, kept[i].coordinates)]]
    IN  SortByKeys(spots, [i \in 1..Len(spots) |-> spots[i].distanceKm])

\* fetchAndScore after findNearbySpotsWithData returned nearby
NearbyReturned(nearby) ==
    /\ appPc' = "done"
    /\ IF nearby # << >>
       THEN /\ suggestions' = nearby
            /\ state' = Empty("No data for that spot. Try a nearby option.")
       ELSE /\ suggestions' = suggestions
            /\ state' = Empty("No nearby spots with data. Try another location.")

\* fetchAndScore after fetchConditions settled for the chosen location
MainFetchSettle ==
    /\ appPc = "fetch"
    /\ \E out \in Outcomes(env) :
          LET entry == LogEntry(origin[1], Observed(out))
              noData == IF out.status = "fulfilled" THEN ~entry.accepted
                        ELSE out.reason = NoDataMessage
              spots == NearbyCandidates(origin[1], fallback)
          IN  /\ fetchLog' = <<entry>>
              /\ IF ~noData
                 THEN /\ appPc' = "done"
                      /\ IF out.status = "fulfilled"
                         THEN /\ state' = [status |-> "success", message |-> << >>,
                                           data |-> out.value]
                              /\ suggestions' = << >>
                         ELSE /\ state' = Failure(out.reason)
                              /\ suggestions' = suggestions
                      /\ UNCHANGED <<candidates, probeIndex>>
                 ELSE /\ candidates' = spots
                      /\ IF spots = << >>
                         THEN NearbyReturned(<< >>) /\ probeIndex' = probeIndex
                         ELSE /\ state' = Loading("Looking for nearby spots with data...")
                              /\ appPc' = "probe"
                              /\ probeIndex' = 1
                              /\ suggestions' = suggestions
    /\ UNCHANGED <<selected, options, origin, fallback, results, calls, env, tideVars,
                   aggVars, ratingVars>>

\* findNearbySpotsWithData after fetchConditions settled for a candidate;
\* when the loop ends fetchAndScore resumes with the results
ProbeSettle ==
    /\ appPc = "probe"
    /\ \E seen \in ProbeOutcomes(env) :
          LET candidate == candidates[probeIndex]
              entry == LogEntry(candidate, seen)
              found == IF seen.accepted THEN Append(results, candidate) ELSE results
              stop == \/ ~seen.failed /\ Len(found) >= NearbyLimit
                      \/ probeIndex = Len(candidates)
          IN  /\ fetchLog' = Append(fetchLog, entry)
              /\ results' = found
              /\ IF stop
                 THEN NearbyReturned(found) /\ probeIndex' = probeIndex
                 ELSE /\ probeIndex' = probeIndex + 1
                      /\ UNCHANGED <<state, suggestions, appPc>>
    /\ UNCHANGED <<selected, options, origin, fallback, candidates, calls, env,
                   tideVars, aggVars, ratingVars>>

Next ==
    \/ RunSearch
    \/ GeocodeSettle
    \/ MainFetchSettle
    \/ ProbeSettle

Init == InitApp /\ IdleTide /\ IdleAgg /\ IdleRating

Spec == Init /\ [][Next]_vars

----------------------------------------------------------------------------
(* App.tsx with overlapping requests. The form can be submitted at any time,
   Retry is offered while the status is error and the suggestions while it is
   empty (SearchSection.tsx); no handler waits for, or cancels, a call made
   before. calls holds one record per runSearch / fetchAndScore call with the
   locals of that call; state, selected, options and suggestions are the
   component state all calls write. The data of a success state carries the
   place the conditions were fetched for. handleUseCurrentLocation, whose
   button is disabled while the status is loading, is left out. *)

MaxCalls == 2       \* calls made by the user in one behaviour
MaxOptions == 2     \* most options a geocoding answers with

\* what fetchAndScore makes of the way fetchConditions settles
FetchKind(out) ==
    IF out.status = "fulfilled"
    THEN IF hasConditionsData(out.value[1].conditions) THEN "data" ELSE "blank"
    ELSE IF out.reason = NoDataMessage THEN "noData" ELSE "error"

FetchResults ==
    {[kind |-> FetchKind(out),
      message |-> IF FetchKind(out) = "error" THEN out.reason ELSE << >>] :
        out \in OutcomesWithoutKey}

OverlapGeocodeResults == {r \in GeocodeResults : Len(r) <= MaxOptions}

Call(pc, location, fb) ==
    [pc |-> pc, location |-> location, fallback |-> fb, candidates |-> << >>,
     probeIndex |-> 0, results |-> << >>]

\* a call that ran to its end: its locals are gone, the candidates it probed
\* and the spots it found are kept for the record
Done(call, found) ==
    [Call("done", << >>, << >>) EXCEPT !.candidates = call.candidates,
                                       !.results = found]

Success(place) ==
    [status |-> "success", message |-> << >>, data |-> <<[place |-> place.id]>>]

\* the state and the suggestions fetchAndScore sets when
\* findNearbySpotsWithData returned nearby; this variant leaves the status
\* at loading when nothing was found
NearbyOutcome_staysLoading(nearby, shown) ==
    IF nearby # << >>
    THEN [state |-> Empty("No data for that spot. Try a nearby option."),
          suggestions |-> nearby]
    ELSE [state |-> Loading("Looking for nearby spots with data..."),
          suggestions |-> shown]

\* the state and the suggestions fetchAndScore sets when
\* findNearbySpotsWithData returned nearby
NearbyOutcome(nearby, shown) ==
    IF nearby # << >>
    THEN [state |-> Empty("No data for that spot. Try a nearby option."),
          suggestions |-> nearby]
    ELSE [state |-> Empty("No nearby spots with data. Try another location."),
          suggestions |-> shown]

OverlapIdle ==
    UNCHANGED <<appPc, origin, fallback, candidates, probeIndex, results, fetchLog,
                env, tideVars, aggVars, ratingVars>>

\* runSearch up to its await of geocodeLocation
StartSearch ==
    /\ Len(calls) < MaxCalls
    /\ state' = Loading("Searching nearby spots...")
    /\ suggestions' = << >>
    /\ calls' = Append(calls, Call("geocode", << >>, << >>))
    /\ UNCHANGED <<selected, options>>
    /\ OverlapIdle

\* runSearch of call c after geocodeLocation settled
OverlapGeocodeSettle ==
    /\ \E c \in 1..Len(calls) :
          /\ calls[c].pc = "geocode"
          /\ \/ \E message \in GeocodeErrors :
                   /\ state' = Failure(message)
                   /\ calls' = [calls EXCEPT ![c] = Done(calls[c], << >>)]
                   /\ UNCHANGED <<selected, options>>
             \/ /\ options' = << >>
                /\ selected' = << >>
                /\ state' = Empty("No matches found. Try another place name.")
                /\ calls' = [calls EXCEPT ![c] = Done(calls[c], << >>)]
             \/ \E locations \in OverlapGeocodeResults \ {<< >>} :
                   \E chosen \in 1..Len(locations) :
                      /\ options' = locations
                      /\ selected' = <<locations[chosen]>>
                      /\ state' = Loading("Checking live conditions...")
                      /\ calls' = [calls EXCEPT
                                      ![c] = Call("fetch", <<locations[chosen]>>, locations)]
    /\ UNCHANGED suggestions
    /\ OverlapIdle

\* handleSuggestionClick(option) up to the await in fetchAndScore
HandleSuggestionClick ==
    /\ Len(calls) < MaxCalls
    /\ state.status = "empty"
    /\ \E i \in 1..Len(suggestions) :
          /\ selected' = <<suggestions[i]>>
          /\ calls' = Append(calls,
                        Call("fetch", <<suggestions[i]>>,
                             IF Len(options) > 0 THEN options ELSE <<suggestions[i]>>))
    /\ state' = Loading("Checking live conditions...")
    /\ UNCHANGED <<options, suggestions>>
    /\ OverlapIdle

\* handleRetry with a selected location, up to the await in fetchAndScore
HandleRetry ==
    /\ Len(calls) < MaxCalls
    /\ state.status = "error"
    /\ selected # << >>
    /\ calls' = Append(calls, Call("fetch", selected, options))
    /\ state' = Loading("Checking live conditions...")
    /\ UNCHANGED <<selected, options, suggestions>>
    /\ OverlapIdle

\* fetchAndScore of call c after fetchConditions settled for its location
OverlapFetchSettle ==
    /\ \E c \in 1..Len(calls) :
          /\ calls[c].pc = "fetch"
          /\ \E r \in FetchResults :
                LET location == calls[c].location[1]
                    spots == NearbyCandidates(location, calls[c].fallback)
                    after == NearbyOutcome(<< >>, suggestions)
                IN  IF r.kind = "data"
                    THEN /\ state' = Success(location)
                         /\ suggestions' = << >>
                         /\ calls' = [calls EXCEPT ![c] = Done(calls[c], << >>)]
                    ELSE IF r.kind = "error"
                    THEN /\ state' = Failure(r.message)
                         /\ suggestions' = suggestions
                         /\ calls' = [calls EXCEPT ![c] = Done(calls[c], << >>)]
                    ELSE IF spots = << >>
                    THEN /\ state' = after.state
                         /\ suggestions' = after.suggestions
                         /\ calls' = [calls EXCEPT ![c] = Done(calls[c], << >>)]
                    ELSE /\ state' = Loading("Looking for nearby spots with data...")
                         /\ suggestions' = suggestions
                         /\ calls' = [calls EXCEPT ![c].pc = "probe",
                                                   ![c].candidates = spots,
                                                   ![c].probeIndex = 1]
    /\ UNCHANGED <<selected, options>>
    /\ OverlapIdle

\* findNearbySpotsWithData of call c after fetchConditions settled for a
\* candidate; when the loop ends fetchAndScore resumes with the results
OverlapProbeSettle ==
    /\ \E c \in 1..Len(calls) :
          /\ calls[c].pc = "probe"
          /\ \E seen \in ObservedWithoutKey :
                LET candidate == calls[c].candidates[calls[c].probeIndex]
                    found == IF seen.accepted THEN Append(calls[c].results, candidate)
                             ELSE calls[c].results
                    stop == \/ ~seen.failed /\ Len(found) >= NearbyLimit
                            \/ calls[c].probeIndex = Len(calls[c].candidates)
                    after == NearbyOutcome(found, suggestions)
                IN  IF stop
                    THEN /\ state' = after.state
                         /\ suggestions' = after.suggestions
                         /\ calls' = [calls EXCEPT ![c] = Done(calls[c], found)]
                    ELSE /\ calls' = [calls EXCEPT
                                         ![c].probeIndex = calls[c].probeIndex + 1,
                                         ![c].results = found]
                         /\ UNCHANGED <<state, suggestions>>
    /\ UNCHANGED <<selected, options>>
    /\ OverlapIdle

NextOverlap ==
    \/ StartSearch
    \/ OverlapGeocodeSettle
    \/ HandleSuggestionClick
    \/ HandleRetry
    \/ OverlapFetchSettle
    \/ OverlapProbeSettle

InitOverlapSpec == IdleEnv /\ IdleApp /\ IdleTide /\ IdleAgg /\ IdleRating

SpecOverlap == InitOverlapSpec /\ [][NextOverlap]_vars

----------------------------------------------------------------------------
(* ratingRubric.ts and utils/rating.ts: the scoring of one metric.
   A tier that may be missing is << >> (null) or <<tier>>. Every measured
   quantity is in tenths of its unit (0.5 m is 5, 7.5 m/s is 75, 20 % is
   200). *)

\* a property the object does not have, read as a number and read as a rule
Undefined == <<0, 0, 0>>
UndefinedRule == [direction |-> Undefined]

LowerIsBetterRule(excellentMax, goodMax, okMax) ==
    [direction |-> "lower-is-better", excellentMax |-> excellentMax,
     goodMax |-> goodMax, okMax |-> okMax]
HigherIsBetterRule(excellentMin, goodMin, okMin) ==
    [direction |-> "higher-is-better", excellentMin |-> excellentMin,
     goodMin |-> goodMin, okMin |-> okMin]

\* the rubric; tiers lists the entries of the tiers object in the order of
\* Object.entries
ratingRubric ==
    [waves |-> [heightMeters |-> LowerIsBetterRule(5, 10, 15)],
     wind |-> [speedMetersPerSecond |-> LowerIsBetterRule(30, 50, 75),
               gustMetersPerSecond |-> LowerIsBetterRule(50, 75, 100)],
     tide |-> [state |-> [tiers |-> << <<"excellent", <<"high">> >>,
                                       <<"good", <<"rising">> >>,
                                       <<"ok", <<"falling">> >>,
                                       <<"poor", <<"low">> >> >>,
                          excluded |-> <<"unknown">>]],
     weather |-> [precipitationMmPerHour |-> LowerIsBetterRule(1, 5, 20),
                  cloudCoverPercent |-> LowerIsBetterRule(200, 500, 800)],
     visibility |-> [rangeMeters |-> HigherIsBetterRule(200, 100, 50)]]

\* the numeric rules of the rubric by name
NumericRules ==
    [waveHeight |-> ratingRubric.waves.heightMeters,
     windSpeed |-> ratingRubric.wind.speedMetersPerSecond,
     windGust |-> ratingRubric.wind.gustMetersPerSecond,
     precipitation |-> ratingRubric.weather.precipitationMmPerHour,
     cloudCover |-> ratingRubric.weather.cloudCoverPercent,
     visibility |-> ratingRubric.visibility.rangeMeters]

\* value <= bound and value >= bound of JavaScript for a value that is a
\* number, NaN or undefined
Le(value, bound) == IsFinite(value) /\ value[1] <= bound
Ge(value, bound) == IsFinite(value) /\ value[1] >= bound

\* what scoreNumeric does when it reads rule.direction of an undefined rule
TypeError == <<"TypeError">>

\* a mutant of scoreNumeric: the cut points are exclusive
scoreNumeric_exclusive(value, rule) ==
    IF value = Null THEN Null
    ELSE IF rule = UndefinedRule THEN TypeError
    ELSE IF rule.direction = "lower-is-better"
    THEN IF Lt(value, Some(rule.excellentMax)) THEN Some("excellent")
         ELSE IF Lt(value, Some(rule.goodMax)) THEN Some("good")
         ELSE IF Lt(value, Some(rule.okMax)) THEN Some("ok")
         ELSE Some("poor")
    ELSE IF Gt(value, Some(rule.excellentMin)) THEN Some("excellent")
    ELSE IF Gt(value, Some(rule.goodMin)) THEN Some("good")
    ELSE IF Gt(value, Some(rule.okMin)) THEN Some("ok")
    ELSE Some("poor")

\* scoreNumeric(value, rule): << >>, <<tier>>, or TypeError when it throws
\* scoreNumeric comparing with <= under either direction
scoreNumeric_ignoresDirection(value, rule) ==
    IF value = Null THEN Null
    ELSE IF rule = UndefinedRule THEN TypeError
    ELSE IF rule.direction = "lower-is-better"
    THEN IF Le(value, rule.excellentMax) THEN Some("excellent")
         ELSE IF Le(value, rule.goodMax) THEN Some("good")
         ELSE IF Le(value, rule.okMax) THEN Some("ok")
         ELSE Some("poor")
    ELSE IF Le(value, rule.excellentMin) THEN Some("excellent")
    ELSE IF Le(value, rule.goodMin) THEN Some("good")
    ELSE IF Le(value, rule.okMin) THEN Some("ok")
    ELSE Some("poor")

scoreNumeric(value, rule) ==
    IF value = Null THEN Null
    ELSE IF rule = UndefinedRule THEN TypeError
    ELSE IF rule.direction = "lower-is-better"
    THEN IF Le(value, rule.excellentMax) THEN Some("excellent")
         ELSE IF Le(value, rule.goodMax) THEN Some("good")
         ELSE IF Le(value, rule.okMax) THEN Some("ok")
         ELSE Some("poor")
    ELSE IF Ge(value, rule.excellentMin) THEN Some("excellent")
    ELSE IF Ge(value, rule.goodMin) THEN Some("good")
    ELSE IF Ge(value, rule.okMin) THEN Some("ok")
    ELSE Some("poor")

Includes(values, value) == \E i \in 1..Len(values) : values[i] = value

\* a mutant of scoreCategorical: the excluded values are not looked at
scoreCategorical_noExclusion(value, tiers, excluded) ==
    IF value = Null THEN Null
    ELSE IF \E i \in 1..Len(tiers) : Includes(tiers[i][2], value[1])
    THEN Some(tiers[CHOOSE i \in 1..Len(tiers) :
                      /\ Includes(tiers[i][2], value[1])
                      /\ \A j \in 1..(i - 1) : ~Includes(tiers[j][2], value[1])][1])
    ELSE Some("poor")

\* scoreCategorical(value, tiers, excluded); value is << >> or <<text>>
scoreCategorical(value, tiers, excluded) ==
    IF value = Null \/ Includes(excluded, value[1]) THEN Null
    ELSE IF \E i \in 1..Len(tiers) : Includes(tiers[i][2], value[1])
    THEN Some(tiers[CHOOSE i \in 1..Len(tiers) :
                      /\ Includes(tiers[i][2], value[1])
                      /\ \A j \in 1..(i - 1) : ~Includes(tiers[j][2], value[1])][1])
    ELSE Null

----------------------------------------------------------------------------
(* utils/rating.ts: the arithmetic of combineWeightedRatings. Its numbers
   are IEEE-754 doubles. A double d with 0 <= d < 4 that is a multiple of
   2^-57 is the record [hi, lo] with d = (hi * 2^30 + lo) * 2^-57; the
   weights, their multiples by 0..3 and the sums of these are such doubles. *)

Limb == 2^30

DoubleZero == [hi |-> 0, lo |-> 0]

\* the doubles of the literals 0.35 (0x1.6666666666666p-2), 0.25 (0x1p-2),
\* 0.15 (0x1.3333333333333p-3), 0.1 (0x1.999999999999ap-4) and
\* 0.05 (0x1.999999999999ap-5)
Double035 == [hi |-> 46976204, lo |-> 858993456]
Double025 == [hi |-> 33554432, lo |-> 0]
Double015 == [hi |-> 20132659, lo |-> 214748364]
Double010 == [hi |-> 13421772, lo |-> 858993460]
Double005 == [hi |-> 6710886, lo |-> 429496730]

\* exact sum, order and difference (a >= b) of two such numbers
ExactAdd(a, b) ==
    [hi |-> a.hi + b.hi + ((a.lo + b.lo) \div Limb), lo |-> (a.lo + b.lo) % Limb]
ExactLe(a, b) == a.hi < b.hi \/ (a.hi = b.hi /\ a.lo <= b.lo)
ExactSub(a, b) ==
    IF a.lo >= b.lo THEN [hi |-> a.hi - b.hi, lo |-> a.lo - b.lo]
    ELSE [hi |-> a.hi - b.hi - 1, lo |-> a.lo + Limb - b.lo]
RECURSIVE ExactTimes(_, _)
ExactTimes(k, a) == IF k = 0 THEN DoubleZero ELSE ExactAdd(a, ExactTimes(k - 1, a))

\* the spacing, in units of 2^-57, of the doubles around x: 53 significant
\* bits, so 1 below 2^-4, 2 below 2^-3, ..., 64 below 4
Spacing(x) ==
    IF x.hi < 2^23 THEN 1 ELSE IF x.hi < 2^24 THEN 2 ELSE IF x.hi < 2^25 THEN 4
    ELSE IF x.hi < 2^26 THEN 8 ELSE IF x.hi < 2^27 THEN 16
    ELSE IF x.hi < 2^28 THEN 32 ELSE 64

\* the double nearest to the exact value x, ties to the even mantissa
RoundToDouble(x) ==
    LET q == Spacing(x)
        r == x.lo % q
        down == [hi |-> x.hi, lo |-> x.lo - r]
    IN  IF 2 * r > q \/ (2 * r = q /\ ((x.lo - r) \div q) % 2 = 1)
        THEN ExactAdd(down, [hi |-> 0, lo |-> q])
        ELSE down

\* a + b and k * a of doubles (k in 0..3)
DoubleAdd(a, b) == RoundToDouble(ExactAdd(a, b))
DoubleTimes(k, a) == RoundToDouble(ExactTimes(k, a))

\* (a / b) >= cut of doubles, for b > 0 and a cut c = quarters / 4 whose
\* mantissa is even and whose lower neighbour is c - 2^-(halfBits - 1): the
\* rounded quotient reaches c exactly when a / b >= c - 2^-halfBits, that is
\* when quarters * b - 4 * a <= b * 2^(2 - halfBits)
QuotientGe(a, b, quarters, halfBits) ==
    LET bound == ExactTimes(quarters, b)
        have == ExactTimes(4, a)
        short == ExactSub(bound, have)
    IN  \/ ExactLe(bound, have)
        \/ /\ short.hi = 0
           /\ short.lo < 512
           /\ short.lo * 2^(halfBits - 32) <= b.hi

----------------------------------------------------------------------------
(* utils/rating.ts: combineWeightedRatings and buildRatingSummary *)

tierScore(tier) ==
    IF tier = "poor" THEN 0 ELSE IF tier = "ok" THEN 1
    ELSE IF tier = "good" THEN 2 ELSE 3

\* the forEach of combineWeightedRatings from entry i on; totals holds
\* totalWeight and weightedScore
RECURSIVE WeighEntries(_, _, _)
WeighEntries(entries, i, totals) ==
    IF i > Len(entries) THEN totals
    ELSE IF entries[i].tier = Null \/ entries[i].weight = DoubleZero
    THEN WeighEntries(entries, i + 1, totals)
    ELSE WeighEntries(entries, i + 1,
            [totalWeight |-> DoubleAdd(totals.totalWeight, entries[i].weight),
             weightedScore |->
                 DoubleAdd(totals.weightedScore,
                           DoubleTimes(tierScore(entries[i].tier[1]),
                                       entries[i].weight))])

\* the worst scored tier, as combineRatings takes it
combineWeightedRatings_worst(entries) ==
    LET valid == {i \in 1..Len(entries) : entries[i].tier # Null}
    IN  IF valid = {} THEN "ok"
        ELSE entries[CHOOSE i \in valid :
                        \A j \in valid : tierScore(entries[i].tier[1])
                                            <= tierScore(entries[j].tier[1])].tier[1]

\* combineWeightedRatings with an unscored entry weighed as poor instead of
\* skipped
combineWeightedRatings_countsUnscored(entries) ==
    LET filled == [i \in 1..Len(entries) |->
                      IF entries[i].tier = Null
                      THEN [tier |-> Some("poor"), weight |-> entries[i].weight]
                      ELSE entries[i]]
        totals == WeighEntries(filled, 1,
                      [totalWeight |-> DoubleZero, weightedScore |-> DoubleZero])
    IN  IF totals.totalWeight = DoubleZero THEN "ok"
        ELSE IF QuotientGe(totals.weightedScore, totals.totalWeight, 10, 52)
        THEN "excellent"
        ELSE IF QuotientGe(totals.weightedScore, totals.totalWeight, 6, 53)
        THEN "good"
        ELSE IF QuotientGe(totals.weightedScore, totals.totalWeight, 3, 54)
        THEN "ok"
        ELSE "poor"

\* combineWeightedRatings(entries); the cut points are 2.5, 1.5 and 0.75
combineWeightedRatings(entries) ==
    LET totals == WeighEntries(entries, 1,
                      [totalWeight |-> DoubleZero, weightedScore |-> DoubleZero])
        totalWeight == totals.totalWeight
        weightedScore == totals.weightedScore
    IN  IF totalWeight = DoubleZero THEN "ok"
        ELSE IF QuotientGe(weightedScore, totalWeight, 10, 52) THEN "excellent"
        ELSE IF QuotientGe(weightedScore, totalWeight, 6, 53) THEN "good"
        ELSE IF QuotientGe(weightedScore, totalWeight, 3, 54) THEN "ok"
        ELSE "poor"

\* the weights buildRatingSummary gives to the wave, wind, gust,
\* precipitation, cloud, sunlight, tide and visibility tiers
SummaryWeights ==
    <<Double035, Double025, Double010, Double015, Double005, Double010,
      Double010, Double010>>
WeightedEntries(tiers) ==
    [i \in 1..Len(tiers) |-> [tier |-> tiers[i], weight |-> SummaryWeights[i]]]

\* object.name of an object that may lack the property
Property(object, name, undefined) ==
    IF name \in DOMAIN object THEN object[name] ELSE undefined

ratingTierToLabel(tier) ==
    IF tier = "poor" THEN "Poor" ELSE IF tier = "ok" THEN "OK"
    ELSE IF tier = "good" THEN "Good" ELSE "Excellent"

\* tier ?? "unknown"
TierText(tier) == IF tier = Null THEN "unknown" ELSE tier[1]

\* buildRatingSummary(conditions): what it returns, or the error it throws
buildRatingSummary(conditions) ==
    LET waveTier == scoreNumeric(conditions.waves.heightMeters,
                                 ratingRubric.waves.heightMeters)
        windTier == scoreNumeric(conditions.wind.speedMetersPerSecond,
                                 ratingRubric.wind.speedMetersPerSecond)
        gustTier == scoreNumeric(conditions.wind.gustMetersPerSecond,
                                 ratingRubric.wind.gustMetersPerSecond)
        precipitationTier == scoreNumeric(conditions.weather.precipitationMmPerHour,
                                          ratingRubric.weather.precipitationMmPerHour)
        cloudTier == scoreNumeric(conditions.weather.cloudCoverPercent,
                                  ratingRubric.weather.cloudCoverPercent)
        sunlightTier ==
            scoreNumeric(Property(conditions.weather, "shortwaveRadiationWm2", Undefined),
                         Property(ratingRubric.weather, "shortwaveRadiationWm2",
                                  UndefinedRule))
        tideTier == scoreCategorical(Some(conditions.tide.state),
                                     ratingRubric.tide.state.tiers,
                                     ratingRubric.tide.state.excluded)
        visibilityTier ==
            IF conditions.visibility # Null
            THEN scoreNumeric(conditions.visibility[1].rangeMeters,
                              ratingRubric.visibility.rangeMeters)
            ELSE Null
        tiers == <<waveTier, windTier, gustTier, precipitationTier, cloudTier,
                   sunlightTier, tideTier, visibilityTier>>
    IN  IF \E i \in 1..Len(tiers) : tiers[i] = TypeError
        THEN [status |-> "threw", error |-> TypeError]
        ELSE LET overall == combineWeightedRatings(WeightedEntries(tiers))
             IN  [status |-> "returned",
                  tier |-> overall,
                  label |-> ratingTierToLabel(overall),
                  reason |-> <<"Based", "on", "waves", TierText(waveTier),
                               "wind", TierText(windTier), "tide", TierText(tideTier),
                               "and", "sunlight", TierText(sunlightTier)>>,
                  metrics |-> [waves |-> waveTier, wind |-> windTier,
                               tide |-> tideTier, weather |-> precipitationTier,
                               sunlight |-> sunlightTier]]

----------------------------------------------------------------------------
(* The scoring functions applied to bounded inputs. rateIn holds the call
   and its arguments, rateOut what the call gave back. *)

MaxScored == 3      \* most scored entries in a list given to combineWeightedRatings

RatingTiers == {"poor", "ok", "good", "excellent"}
NullableTiers == {Null} \cup {Some(t) : t \in RatingTiers}
TideStates == {"rising", "falling", "high", "low", "unknown"}

CutPoints(rule) ==
    IF rule.direction = "lower-is-better"
    THEN {rule.excellentMax, rule.goodMax, rule.okMax}
    ELSE {rule.excellentMin, rule.goodMin, rule.okMin}

\* null, NaN, and the numbers at and next to every cut point of the rule
ScoreValues(rule) ==
    {Null, NaN} \cup
    {Some(x) : x \in {0, 1000} \cup
                     UNION {{c - 1, c, c + 1} : c \in CutPoints(rule)}}

NumericInputs ==
    UNION {{[kind |-> "numeric", rule |-> r, value |-> v, other |-> w] :
               v \in ScoreValues(NumericRules[r]),
               w \in ScoreValues(NumericRules[r])} : r \in DOMAIN NumericRules}

CategoricalInputs ==
    {[kind |-> "categorical", state |-> s, waveTier |-> a, windTier |-> b] :
        s \in TideStates, a \in NullableTiers, b \in NullableTiers}

\* the lists of eight tiers of which at most MaxScored are scored
TierLists ==
    UNION {{[i \in 1..8 |-> IF i \in S THEN Some(f[i]) ELSE Null] :
               f \in [S -> RatingTiers]} :
           S \in {T \in SUBSET (1..8) : Cardinality(T) <= MaxScored}}

CombineInputs == {[kind |-> "combine", tiers |-> t] : t \in TierLists}

\* a SnorkelConditions object; sunlight is "absent" for the shape of
\* types/conditions.ts, which has no shortwaveRadiationWm2
Snapshot(wave, wind, gust, precipitation, cloud, sunlight, tideState) ==
    [waves |-> [heightMeters |-> wave, periodSeconds |-> Null,
                directionDegrees |-> Null],
     wind |-> [speedMetersPerSecond |-> wind, gustMetersPerSecond |-> gust,
               directionDegrees |-> Null],
     tide |-> [heightMeters |-> Null, state |-> tideState],
     weather |-> IF sunlight = "absent"
                 THEN [temperatureC |-> Null,
                       precipitationMmPerHour |-> precipitation,
                       cloudCoverPercent |-> cloud]
                 ELSE [temperatureC |-> Null,
                       precipitationMmPerHour |-> precipitation,
                       cloudCoverPercent |-> cloud,
                       shortwaveRadiationWm2 |-> sunlight],
     visibility |-> Null]

SummaryInputs ==
    {[kind |-> "summary",
      conditions |-> Snapshot(wave, wind, gust, precipitation, cloud, sunlight, tideState)] :
        wave \in {Null, Some(4), Some(12)},
        wind \in {Null, Some(20), Some(80)},
        gust \in {Null, Some(60)},
        precipitation \in {Null, Some(3), Some(50)},
        cloud \in {Null, Some(900)},
        sunlight \in {"absent", Null},
        tideState \in TideStates}

\* tide heights from -0.5 m to 1.0 m in steps of 0.1 m, and no height
TideHeightInputs ==
    {[kind |-> "tideHeight", height |-> h] :
        h \in {Null} \cup {Some(x) : x \in -5..10}}

InitRating ==
    /\ rateIn \in {<<x>> : x \in NumericInputs \cup CategoricalInputs
                                  \cup CombineInputs \cup SummaryInputs
                                  \cup TideHeightInputs}
    /\ rateOut = << >>

\* scoreNumeric on two values of one rule
ScoreNumericCall ==
    /\ rateOut = << >>
    /\ rateIn[1].kind = "numeric"
    /\ rateOut' = <<[tier |-> scoreNumeric(rateIn[1].value,
                                           NumericRules[rateIn[1].rule]),
                     otherTier |-> scoreNumeric(rateIn[1].other,
                                                NumericRules[rateIn[1].rule])]>>
    /\ UNCHANGED <<rateIn, env, tideVars, aggVars, appVars>>

\* the eight entries of buildRatingSummary when only waves, wind and tide
\* may be scored
EntriesOf(waveTier, windTier, tideTier) ==
    WeightedEntries(<<waveTier, windTier, Null, Null, Null, Null, tideTier, Null>>)

\* scoreCategorical on a tide state, and the overall tier with the tide
\* entry and with that entry left out of the list
ScoreCategoricalCall ==
    /\ rateOut = << >>
    /\ rateIn[1].kind = "categorical"
    /\ LET tideTier == scoreCategorical(Some(rateIn[1].state),
                                        ratingRubric.tide.state.tiers,
                                        ratingRubric.tide.state.excluded)
       IN  rateOut' =
             <<[tier |-> tideTier,
                overall |-> combineWeightedRatings(
                    EntriesOf(rateIn[1].waveTier, rateIn[1].windTier, tideTier)),
                withoutTide |-> combineWeightedRatings(
                    EntriesOf(rateIn[1].waveTier, rateIn[1].windTier, Null))]>>
    /\ UNCHANGED <<rateIn, env, tideVars, aggVars, appVars>>

CombineWeightedRatingsCall ==
    /\ rateOut = << >>
    /\ rateIn[1].kind = "combine"
    /\ rateOut' = <<[tier |-> combineWeightedRatings(WeightedEntries(rateIn[1].tiers))]>>
    /\ UNCHANGED <<rateIn, env, tideVars, aggVars, appVars>>

BuildRatingSummaryCall ==
    /\ rateOut = << >>
    /\ rateIn[1].kind = "summary"
    /\ rateOut' = <<buildRatingSummary(rateIn[1].conditions)>>
    /\ UNCHANGED <<rateIn, env, tideVars, aggVars, appVars>>

\* getTideState of the aggregator on a tide height, and the tier the state
\* is scored with
GetTideStateCall ==
    /\ rateOut = << >>
    /\ rateIn[1].kind = "tideHeight"
    /\ LET tideState == getTideState(rateIn[1].height)
       IN  rateOut' = <<[state |-> tideState,
                         tier |-> scoreCategorical(Some(tideState),
                                                   ratingRubric.tide.state.tiers,
                                                   ratingRubric.tide.state.excluded)]>>
    /\ UNCHANGED <<rateIn, env, tideVars, aggVars, appVars>>

NextRating ==
    \/ ScoreNumericCall
    \/ ScoreCategoricalCall
    \/ CombineWeightedRatingsCall
    \/ BuildRatingSummaryCall
    \/ GetTideStateCall

InitRatingSpec == InitRating /\ IdleEnv /\ IdleTide /\ IdleAgg /\ IdleApp
SpecRating == InitRatingSpec /\ [][NextRating]_vars

----------------------------------------------------------------------------
(* Claims on the scan for the nearest sample *)

\* | t - now | of sample i
DeltaAt(times, now, i) == Abs(times[i] - now)

\* the lowest index among the samples with the smallest delta
FirstNearest(times, now) ==
    CHOOSE i \in 1..Len(times) :
        /\ \A j \in 1..Len(times) : DeltaAt(times, now, i) <= DeltaAt(times, now, j)
        /\ \A j \in 1..(i - 1) : DeltaAt(times, now, j) > DeltaAt(times, now, i)

\* the instants of the samples in the order the adapter scans them
ScannedTimes ==
    IF tideIn.provider = "open-meteo" THEN tideIn.data.time
    ELSE IF tideIn.provider = "stormglass"
    THEN LET points == SortByKeys(tideIn.data,
                           [i \in 1..Len(tideIn.data) |-> tideIn.data[i].time])
         IN  [i \in 1..Len(points) |-> points[i].time]
    ELSE LET points == SortByKeys(tideIn.data,
                           [i \in 1..Len(tideIn.data) |->
                               toIsoTimestamp(tideIn.data[i], tideIn.nowMs)])
         IN  [i \in 1..Len(points) |-> toIsoTimestamp(points[i], tideIn.nowMs)]

\* C20: for every non-empty series the sample taken as the one at now, by
\* pickNearestValue and by either tide adapter, is the one at the lowest index
\* among those with the smallest | t - now |; a later sample with an equal
\* delta does not replace an earlier one.
C20_FirstNearestWins ==
    (tideOut # << >> /\ Len(ScannedTimes) > 0) =>
        LET first == FirstNearest(ScannedTimes, tideIn.nowMs)
        IN  IF tideIn.provider = "open-meteo"
            THEN Len(tideIn.data.values) = Len(tideIn.data.time) =>
                    tideOut[1].value =
                       (IF IsFinite(tideIn.data.values[first])
                        THEN tideIn.data.values[first] ELSE Null)
            ELSE /\ tideOut[1].bestIndex = first
                 /\ tideOut[1].condition.heightMeters =
                       (IF IsFinite(tideOut[1].heights[first])
                        THEN tideOut[1].heights[first] ELSE Null)

\* pickNearestValue took the earlier of two samples equally far from now
C20_Witness ==
    /\ tideOut # << >>
    /\ tideIn.provider = "open-meteo"
    /\ tideIn.data.time = <<1000, 0>> /\ tideIn.nowMs = 500
    /\ tideIn.data.values = <<Some(7), Some(1)>>
    /\ tideOut[1].value = Some(7)

\* a tide adapter took the earlier of two samples equally far from now
C20_TideWitness ==
    /\ tideOut # << >>
    /\ tideIn.provider = "stormglass"
    /\ ScannedTimes = <<0, 1000>> /\ tideIn.nowMs = 500
    /\ tideOut[1].bestIndex = 1
    /\ tideOut[1].heights = <<Some(7), Some(1)>>

\* a call of pickNearestValue that has returned
PickDone == tideOut # << >> /\ tideIn.provider = "open-meteo"

\* C21: pickNearestValue gives the field's value at the index of the
\* timestamp nearest to now when that value is a finite number, and null when
\* the time list is empty, the value list is empty or ends before that index,
\* or the value there is missing or not finite; a value it returns is never
\* that of another sample of the series.
C21_OwnSampleOrNull ==
    PickDone =>
        LET times == tideIn.data.time
            values == tideIn.data.values
            result == tideOut[1].value
        IN  IF Len(times) = 0 \/ Len(values) = 0 THEN result = Null
            ELSE LET first == FirstNearest(times, tideIn.nowMs)
                 IN  IF first > Len(values) THEN result = Null
                     ELSE IF IsFinite(values[first]) THEN result = values[first]
                     ELSE result = Null

\* the nearest sample holds null while another sample of the series holds a
\* number, and null was returned
C21_Witness ==
    /\ PickDone
    /\ tideIn.data.time = <<0, 1000>> /\ tideIn.nowMs = 0
    /\ tideIn.data.values = <<Null, Some(7)>>
    /\ tideOut[1].value = Null

\* the value list ends before the nearest sample and null was returned
C21_ShortListWitness ==
    /\ PickDone
    /\ tideIn.data.time = <<0, 1000>> /\ tideIn.nowMs = 2000
    /\ tideIn.data.values = <<Some(7)>>
    /\ tideOut[1].value = Null

----------------------------------------------------------------------------
(* Claims on the scoring functions *)

\* the importance weights in hundredths, in the order of SummaryWeights
C13_Hundredths == <<35, 25, 10, 15, 5, 10, 10, 10>>

RECURSIVE C13_Sum(_, _, _)
C13_Sum(tiers, i, scores) ==
    IF i > Len(tiers) THEN 0
    ELSE (IF tiers[i] = Null THEN 0
          ELSE C13_Hundredths[i] * (IF scores THEN tierScore(tiers[i][1]) ELSE 1))
         + C13_Sum(tiers, i + 1, scores)

\* the tier of the weighted mean of the scored entries, in exact arithmetic
C13_MeanTier(tiers) ==
    LET weight == C13_Sum(tiers, 1, FALSE)
        score == C13_Sum(tiers, 1, TRUE)
    IN  IF weight = 0 THEN "ok"
        ELSE IF 2 * score >= 5 * weight THEN "excellent"
        ELSE IF 2 * score >= 3 * weight THEN "good"
        ELSE IF 4 * score >= 3 * weight THEN "ok"
        ELSE "poor"

\* C13: combineWeightedRatings returns the tier of the weighted mean of the
\* scores (poor 0, ok 1, good 2, excellent 3) of the scored entries, with
\* weights 0.35 for waves, 0.25 for wind, 0.15 for precipitation and less for
\* the others: excellent from 2.5, good from 1.5, ok from 0.75, poor below,
\* and ok when no entry is scored.
C13_WeightedMeanTier ==
    (rateIn # << >> /\ rateIn[1].kind = "combine" /\ rateOut # << >>)
        => rateOut[1].tier = C13_MeanTier(rateIn[1].tiers)

\* a call of scoreNumeric that has returned
NumericDone ==
    rateIn # << >> /\ rateIn[1].kind = "numeric" /\ rateOut # << >>

\* C14: scoreNumeric gives null for a null value; under a lower-is-better
\* rule a number is excellent up to and including excellentMax, good up to and
\* including goodMax, ok up to and including okMax and poor above; under a
\* higher-is-better rule it is excellent from excellentMin on, good from
\* goodMin on, ok from okMin on and poor below. Every cut point belongs to the
\* better tier.
C14_InclusiveCutPoints ==
    NumericDone =>
        LET rule == NumericRules[rateIn[1].rule]
            value == rateIn[1].value
            tier == rateOut[1].tier
        IN  /\ value = Null => tier = Null
            /\ (IsFinite(value) /\ rule.direction = "lower-is-better") =>
                 /\ tier = Some("excellent") <=> value[1] <= rule.excellentMax
                 /\ tier = Some("good") <=>
                        (rule.excellentMax < value[1] /\ value[1] <= rule.goodMax)
                 /\ tier = Some("ok") <=>
                        (rule.goodMax < value[1] /\ value[1] <= rule.okMax)
                 /\ tier = Some("poor") <=> rule.okMax < value[1]
            /\ (IsFinite(value) /\ rule.direction = "higher-is-better") =>
                 /\ tier = Some("excellent") <=> value[1] >= rule.excellentMin
                 /\ tier = Some("good") <=>
                        (rule.excellentMin > value[1] /\ value[1] >= rule.goodMin)
                 /\ tier = Some("ok") <=>
                        (rule.goodMin > value[1] /\ value[1] >= rule.okMin)
                 /\ tier = Some("poor") <=> rule.okMin > value[1]

\* a wave height of exactly goodMax (1.0 m) has been scored good
C14_Witness ==
    /\ NumericDone
    /\ rateIn[1].rule = "waveHeight"
    /\ rateIn[1].value = Some(ratingRubric.waves.heightMeters.goodMax)
    /\ rateOut[1].tier = Some("good")

\* the tier as a number, poor < ok < good < excellent
TierRank(tier) == tierScore(tier[1])

\* C15: for every numeric rule and finite values v <= w, the tier of w is
\* never better than the tier of v under a lower-is-better rule and never
\* worse under a higher-is-better rule.
C15_Monotonic ==
    (/\ NumericDone
     /\ IsFinite(rateIn[1].value) /\ IsFinite(rateIn[1].other)
     /\ rateIn[1].value[1] <= rateIn[1].other[1])
        => IF NumericRules[rateIn[1].rule].direction = "lower-is-better"
           THEN TierRank(rateOut[1].otherTier) <= TierRank(rateOut[1].tier)
           ELSE TierRank(rateOut[1].otherTier) >= TierRank(rateOut[1].tier)

\* a visibility of 5 m has been scored below one of 20 m
C15_Witness ==
    /\ NumericDone
    /\ rateIn[1].rule = "visibility"
    /\ rateIn[1].value = Some(50) /\ rateIn[1].other = Some(200)
    /\ TierRank(rateOut[1].tier) < TierRank(rateOut[1].otherTier)

\* a call of buildRatingSummary that is over
SummaryDone ==
    rateIn # << >> /\ rateIn[1].kind = "summary" /\ rateOut # << >>

\* the snapshot with waves of 0.4 m, wind of 2 m/s, 5 mm/h of rain and null
\* for every other metric, the tide state unknown
C16_Scenario == Snapshot(Some(4), Some(20), Null, Some(50), Null, Null, "unknown")

CategoricalDone ==
    rateIn # << >> /\ rateIn[1].kind = "categorical" /\ rateOut # << >>

\* the tiers of the tide rubric that list the state
TiersListing(tideState) ==
    {i \in 1..Len(ratingRubric.tide.state.tiers) :
        Includes(ratingRubric.tide.state.tiers[i][2], tideState)}

\* C17: the tide state is scored by membership: high is excellent, rising
\* good, falling ok, low poor; unknown, the excluded value, is unscored and
\* the overall tier is the one the other entries give without the tide entry;
\* every state other than unknown is listed in exactly one tier.
C17_TideTiers ==
    CategoricalDone =>
        LET tideState == rateIn[1].state
            tier == rateOut[1].tier
        IN  /\ tideState = "high" => tier = Some("excellent")
            /\ tideState = "rising" => tier = Some("good")
            /\ tideState = "falling" => tier = Some("ok")
            /\ tideState = "low" => tier = Some("poor")
            /\ tideState = "unknown" =>
                  tier = Null /\ rateOut[1].overall = rateOut[1].withoutTide
            /\ tideState # "unknown" => Cardinality(TiersListing(tideState)) = 1

\* an unknown tide has been scored next to scored waves and wind
C17_Witness ==
    /\ CategoricalDone
    /\ rateIn[1].state = "unknown"
    /\ rateIn[1].waveTier = Some("good") /\ rateIn[1].windTier = Some("poor")
    /\ rateOut[1].tier = Null

\* C30: buildRatingSummary returns, for every snapshot the aggregator can
\* produce, a result whose overall tier is poor, ok, good or excellent, also
\* when a metric it reads is absent from the snapshot or has no rule in the
\* rubric; the absent metric is then unscored.
C30_SummaryAlwaysReturns ==
    SummaryDone =>
        /\ rateOut[1].status = "returned"
        /\ rateOut[1].tier \in RatingTiers
        /\ "shortwaveRadiationWm2" \notin DOMAIN rateIn[1].conditions.weather
              => rateOut[1].metrics.sunlight = Null

\* the summary of a snapshot as buildConditions makes it, without the
\* sunlight property, ended in a TypeError
C30_Thrown ==
    /\ SummaryDone
    /\ "shortwaveRadiationWm2" \notin DOMAIN rateIn[1].conditions.weather
    /\ rateOut[1] = [status |-> "threw", error |-> TypeError]

CombineDone == rateOut # << >> /\ rateIn[1].kind = "combine"

\* the places of the tier list that hold a tier
ScoredPlaces(tiers) == {i \in 1..Len(tiers) : tiers[i] # Null}

\* C28: when at least one metric is scored, the tier combineWeightedRatings
\* returns is no better than the best scored tier and no worse than the worst
\* scored tier; when all scored tiers are equal it is that tier.
C28_WithinScoredTiers ==
    (CombineDone /\ ScoredPlaces(rateIn[1].tiers) # {}) =>
        LET tiers == rateIn[1].tiers
            scored == ScoredPlaces(tiers)
            overall == tierScore(rateOut[1].tier)
        IN  /\ \E i \in scored : TierRank(tiers[i]) <= overall
            /\ \E i \in scored : overall <= TierRank(tiers[i])
            /\ \A t \in RatingTiers :
                  (\A i \in scored : tiers[i] = Some(t)) => rateOut[1].tier = t

\* metrics scored excellent and poor combined to a tier strictly in between
C28_Witness ==
    /\ CombineDone
    /\ \E i, j \in ScoredPlaces(rateIn[1].tiers) :
          /\ rateIn[1].tiers[i] = Some("poor")
          /\ rateIn[1].tiers[j] = Some("excellent")
    /\ rateOut[1].tier \in {"ok", "good"}

\* three metrics scored good and nothing else combined to good
C28_SameTierWitness ==
    /\ CombineDone
    /\ Cardinality(ScoredPlaces(rateIn[1].tiers)) = 3
    /\ \A i \in ScoredPlaces(rateIn[1].tiers) : rateIn[1].tiers[i] = Some("good")
    /\ rateOut[1].tier = "good"

\* C25: the magnitude heuristic gives high for a height above 0.6 m, else
\* rising above 0.1 m, else falling above -0.2 m, else low, every bound
\* exclusive (0.6 is rising, 0.1 falling, -0.2 low), and unknown for no height.
C25_TideHeuristic ==
    (rateIn # << >> /\ rateIn[1].kind = "tideHeight" /\ rateOut # << >>) =>
        LET h == rateIn[1].height
            tideState == rateOut[1].state
        IN  IF h = Null THEN tideState = "unknown"
            ELSE /\ tideState = "high" <=> h[1] > 6
                 /\ tideState = "rising" <=> (h[1] > 1 /\ h[1] <= 6)
                 /\ tideState = "falling" <=> (h[1] > -2 /\ h[1] <= 1)
                 /\ tideState = "low" <=> h[1] <= -2

\* a height of exactly 0.6 m has been classified as rising
C25_Witness ==
    /\ rateIn # << >> /\ rateIn[1].kind = "tideHeight" /\ rateOut # << >>
    /\ rateIn[1].height = Some(6)
    /\ rateOut[1].state = "rising"

----------------------------------------------------------------------------
(* Claims on the tide adapters *)

\* the decision rule of the claim, on the heights of the chronological
\* series and the index of the sample nearest to now
DecisionRule(h, i) ==
    IF i = 1 \/ i = Len(h) THEN "unknown"
    ELSE IF Gt(h[i], h[i - 1]) /\ Gt(h[i], h[i + 1]) THEN "high"
    ELSE IF Lt(h[i], h[i - 1]) /\ Lt(h[i], h[i + 1]) THEN "low"
    ELSE IF Gt(h[i + 1], h[i]) THEN "rising"
    ELSE IF Lt(h[i + 1], h[i]) THEN "falling"
    ELSE "unknown"

\* C23: given the same samples and the same now, the Stormglass adapter and
\* the WorldTides adapter select the same nearest sample and report the same
\* tide height and the same tide state.
C23_AdaptersAgree ==
    (tideIn.provider = "both" /\ Len(tideOut) = 2) =>
        /\ tideOut[1].bestIndex = tideOut[2].bestIndex
        /\ tideOut[1].heights = tideOut[2].heights
        /\ tideOut[1].condition.heightMeters = tideOut[2].condition.heightMeters
        /\ tideOut[1].condition.state = tideOut[2].condition.state

\* both adapters have classified a peak between two lower samples as high
C23_Witness ==
    /\ tideIn.provider = "both" /\ Len(tideOut) = 2
    /\ tideIn.series = <<<<0, Some(1)>>, <<1000, Some(7)>>, <<2000, Some(-2)>> >>
    /\ tideIn.nowMs = 1000
    /\ tideOut[1].condition.state = "high"
    /\ tideOut[2].condition.state = "high"
    /\ tideOut[2].condition.heightMeters = Some(7)

\* a call of a tide adapter that has returned
TideDone == tideOut # << >> /\ tideIn.provider \in {"stormglass", "worldtides"}

\* C22: in both tide adapters the exposed series is in ascending order of time
\* and holds exactly the samples of finite height, while the nearest sample
\* and its neighbours are those of the full sorted series, samples of
\* non-finite height included; the reported height is null when the nearest
\* sample's height is not finite.
C22_ExposedSeries ==
    TideDone =>
        LET points == tideOut[1].details.points
            heights == tideOut[1].heights
            best == tideOut[1].bestIndex
            finite == {i \in 1..Len(heights) : IsFinite(heights[i])}
        IN  /\ \A i \in 1..Len(points) : \A j \in i..Len(points) :
                  points[i].time <= points[j].time
            /\ \A i \in 1..Len(points) : IsFinite(points[i].heightMeters)
            /\ Len(points) = Cardinality(finite)
            /\ [i \in 1..Len(points) |-> points[i].heightMeters]
                  = SelectSeq(heights, IsFinite)
            /\ best \in 1..Len(heights)
            /\ tideOut[1].condition.heightMeters =
                  (IF IsFinite(heights[best]) THEN heights[best] ELSE Null)
            /\ tideOut[1].condition.state = DecisionRule(heights, best)

\* the nearest sample has no finite height: the reported height is null and
\* the sample is missing from the exposed series, which keeps its neighbours
C22_Witness ==
    /\ TideDone
    /\ Len(tideOut[1].heights) = 3
    /\ tideOut[1].bestIndex = 2
    /\ ~IsFinite(tideOut[1].heights[2])
    /\ tideOut[1].condition.heightMeters = Null
    /\ Len(tideOut[1].details.points) = 2
    /\ tideOut[1].details.points[1].time < tideOut[1].details.points[2].time

\* C1: in both adapters the tide state of the nearest sample is high if its
\* height is strictly above both neighbours, else low if strictly below
\* both, else rising if the next height is strictly greater, else falling if
\* strictly smaller, else unknown; it is unknown when the nearest sample is
\* the first or the last of the series (so for every one-sample series).
C1_TideDecisionOrder ==
    tideOut # << >> =>
        tideOut[1].condition.state
            = DecisionRule(tideOut[1].heights, tideOut[1].bestIndex)

\* C1 witness: the WorldTides adapter classified the middle sample of three,
\* equal to the one before it and above the one after it, as falling
C1_Witness ==
    /\ tideOut # << >>
    /\ tideIn.provider = "worldtides"
    /\ tideOut[1].bestIndex = 2
    /\ Len(tideOut[1].heights) = 3
    /\ tideOut[1].condition.state = "falling"
    /\ tideOut[1].heights[1] = tideOut[1].heights[2]

----------------------------------------------------------------------------
(* Claims on fetchConditions *)

MarineRequests == SelectSeq(requests, LAMBDA r : r \in {"marine-full", "marine-reduced"})
TideRequests == SelectSeq(requests, LAMBDA r : r \in {"stormglass", "worldtides"})
\* the marine fetch succeeded and the weather and tide calls were made
FannedOut == fcPc \in {"await", "done"} /\ marineWaves # Null
Settled(p) == p.status \in {"fulfilled", "rejected"}

\* C2: fetchConditions returns a snapshot whenever the marine and the weather
\* fetch succeed, whatever the outcome of the tide call; a failing tide call
\* only leaves the tide data absent.
C2_TideFailureNeverAborts ==
    (fcPc = "done" /\ marineWaves # Null /\ weatherP.status = "fulfilled")
        => fcResult.status = "fulfilled"

\* C3: when a tide provider ran and returned the explicit state unknown, the
\* snapshot's tide state stays unknown: the magnitude heuristic is applied
\* only when no provider produced a result.
C3_ProviderUnknownKept ==
    (/\ fcResult.status = "fulfilled"
     /\ tideP.value # Null
     /\ tideP.value[1].condition.state = "unknown")
        => fcResult.value[1].conditions.tide.state = "unknown"

\* the provider rejected the request and its reason mentions swell
SwellRejected(a) == a.failed /\ a.reason # Null /\ MatchesSwell(a.reason[1])

\* C5: when the first marine request is rejected with a reason mentioning
\* swell, exactly one further marine request is made, with the reduced
\* field set; when it fails for another reason no retry is made and the
\* error propagates; never more than two marine requests.
C5_SwellRetryOnce ==
    /\ Len(MarineRequests) <= 2
    /\ (Len(answers) >= 1 /\ SwellRejected(answers[1]))
          => MarineRequests = <<"marine-full", "marine-reduced">>
    /\ (Len(answers) >= 1 /\ answers[1].failed /\ ~SwellRejected(answers[1]))
          => /\ MarineRequests = <<"marine-full">>
             /\ fcPc = "done"
             /\ fcResult = Rejected(answers[1].message)

C7_NoCoverageIsSentinel ==
    \A i \in 1..Len(answers) :
        (/\ answers[i].endpoint \in {"marine-full", "marine-reduced", "weather"}
         /\ answers[i].failed
         /\ answers[i].reason # Null
         /\ MatchesNoCoverage(answers[i].reason[1])
         /\ ~MatchesSwell(answers[i].reason[1]))
            => answers[i].message = NoDataMessage

\* C10: the tide adapter is chosen by the configured credential: Stormglass
\* with only its key, WorldTides with only its key, no tide request and no
\* error with neither, and never both adapters in one aggregation.
C10_AdapterByCredential ==
    /\ (FannedOut /\ env.stormglassKey /\ ~env.worldTidesKey)
          => TideRequests = <<"stormglass">>
    /\ (FannedOut /\ env.worldTidesKey /\ ~env.stormglassKey)
          => TideRequests = <<"worldtides">>
    /\ (FannedOut /\ ~env.worldTidesKey /\ ~env.stormglassKey)
          => (TideRequests = << >> /\ tideP = Fulfilled(Null))
    /\ Len(TideRequests) <= 1

\* an answer of the tide provider that is one of the kinds of absence: a
\* non-success status, a body that cannot be parsed, an empty payload
TideAbsence(a) ==
    /\ a.endpoint = "stormglass"
    /\ a.body # "none"
    /\ (~a.ok \/ a.body \in {"unparsable", "empty"})

\* C11: for each kind of tide absence (no credential, non-success status,
\* empty payload, unparsable body) the tide adapter returns absent and raises
\* no error, and the snapshot then has tide state unknown, tide height null,
\* no tide source and no tide series.
C11_TideAbsenceIsNotAnError ==
    /\ (FannedOut /\ ~env.stormglassKey) => tideP = Fulfilled(Null)
    /\ \A i \in 1..Len(answers) :
          TideAbsence(answers[i]) => tideP = Fulfilled(Null)
    /\ (fcResult.status = "fulfilled" /\ tideP = Fulfilled(Null))
          => /\ fcResult.value[1].conditions.tide
                  = [heightMeters |-> Null, state |-> "unknown"]
             /\ fcResult.value[1].sources.tide = Null
             /\ fcResult.value[1].tide = Null

\* an Open-Meteo answer with a non-success status, an unparsable body, an
\* error flag or no hourly/time block
BadAnswer(a) ==
    /\ a.endpoint \in {"marine-full", "marine-reduced", "weather"}
    /\ a.kind \in {"status", "unparsable", "error", "no-hourly", "no-time"}
SeriesFrom(E) ==
    \E i \in 1..Len(answers) : answers[i].endpoint \in E /\ answers[i].kind = "series"

\* C12: fetchConditions returns a ConditionsResponse only if the marine fetch
\* (directly or through its retry) and the weather fetch both returned an
\* hourly series; a non-success status, an unparsable body, an error flag or
\* a missing hourly/time block in either makes fetchConditions fail, and no
\* partial snapshot is returned.
C12_NoPartialSnapshot ==
    /\ fcResult.status = "fulfilled"
          => /\ SeriesFrom({"marine-full", "marine-reduced"})
             /\ SeriesFrom({"weather"})
             /\ \A i \in 1..Len(answers) :
                   BadAnswer(answers[i]) => answers[i].endpoint = "marine-full"
    /\ \A i \in 1..Len(answers) :
          (BadAnswer(answers[i])
             /\ \/ answers[i].endpoint # "marine-full"
                \/ MarineRequests = <<"marine-full">>)
            => fcPc = "done" /\ fcResult.status = "rejected"

\* C12 witness: a snapshot was returned after the first marine answer was
\* bad and the retry and the weather fetch returned a series
C12_Witness ==
    /\ fcResult.status = "fulfilled"
    /\ Len(answers) >= 1
    /\ BadAnswer(answers[1])
    /\ MarineRequests = <<"marine-full", "marine-reduced">>

\* the number a series holds at sample i, null when the series is missing,
\* shorter, or holds no number there
NumberAt(series, i) ==
    IF series = Null THEN Null
    ELSE IF i > Len(series[1]) THEN Null
    ELSE IF IsFinite(series[1][i]) THEN series[1][i] ELSE Null

\* the direct value when there is one, else the swell value, else null
DirectOrSwell(direct, swell) ==
    IF direct # Null THEN direct ELSE swell

C18_FallbackWitness ==
    /\ fcResult.status = "fulfilled"
    /\ marineWaves[1].wave_height = AllNullValues
    /\ fcResult.value[1].conditions.waves.heightMeters = Some(8)

\* the positions in requests of the weather and tide requests
LaterRequests == {i \in 1..Len(requests) : requests[i] \in {"weather", "stormglass"}}

\* the marine answers received that carried an hourly series
MarineSuccesses ==
    {i \in 1..Len(answers) :
        answers[i].endpoint \in {"marine-full", "marine-reduced"} /\ ~answers[i].failed}

\* C26: the weather request and the tide request are made only after the
\* marine fetch, its retry included, has succeeded; while it is pending or
\* being retried, and when it has failed, neither request has been made.
C26_MarineFirst ==
    /\ LaterRequests # {} =>
          /\ marineWaves # Null
          /\ MarineSuccesses # {}
          /\ \A i \in LaterRequests : \A j \in 1..Len(requests) :
                requests[j] \in {"marine-full", "marine-reduced"} => j < i
    /\ fcPc \in {"marine", "marineRetry"} => LaterRequests = {}
    /\ (fcPc = "done" /\ MarineSuccesses = {}) =>
          /\ LaterRequests = {}
          /\ fcResult.status = "rejected"
          /\ weatherP = NotStarted /\ tideP = NotStarted

\* the weather and tide requests were made after a marine retry succeeded
C26_Witness ==
    /\ requests = <<"marine-full", "marine-reduced", "weather", "stormglass">>
    /\ Len(answers) >= 2
    /\ answers[1].failed /\ ~answers[2].failed

\* the marine retry failed and nothing else was requested
C26_FailureWitness ==
    /\ fcPc = "done"
    /\ requests = <<"marine-full", "marine-reduced">>
    /\ fcResult.status = "rejected"

\* the promise of fetchConditions settles under SpecAgg in one of the ways
\* the App specifications let it settle
OutcomesAgree == fcPc = "done" => fcResult \in Outcomes(env)

\* every numeric field of the snapshot is null
AllLeavesNull(conditions) == FirstNonNull(LeafValues(conditions)) = Null

\* C4: hasConditionsData answers false exactly when every numeric field of
\* the snapshot is null; a field that is 0 counts as data.
C4_EmptyIffAllNull ==
    hasData # << >> =>
        (hasData[1] <=> ~AllLeavesNull(fcResult.value[1].conditions))

----------------------------------------------------------------------------
(* Claims on the nearby-spot search *)

\* the entries of the probes: the history without the call for the origin
Probes == SubSeq(fetchLog, 2, Len(fetchLog))
\* findNearbySpotsWithData was called and has returned
NearbyDone == appPc = "done" /\ fetchLog # << >> /\ ~fetchLog[1].accepted
                /\ state.status = "empty"
Ids(spots) == [i \in 1..Len(spots) |-> spots[i].id]
ProbedIds == [i \in 1..Len(Probes) |-> Probes[i].place]
\* the candidates probed whose call succeeded with a snapshot holding a value
WithData == SelectSeq(Probes, LAMBDA e : ~e.failed /\ e.anyValue)
Min(a, b) == IF a <= b THEN a ELSE b

\* C8: findNearbySpotsWithData never fails and returns the first min(3, k)
\* of the k non-origin candidates whose probe succeeds with a snapshot that
\* is not empty, in ascending distance from the origin; the origin is never
\* probed nor returned.
C8_FirstThreeWithData ==
    NearbyDone =>
        /\ Ids(results) = [i \in 1..Min(NearbyLimit, Len(WithData)) |-> WithData[i].place]
        /\ \A i \in 1..Len(Probes) : Probes[i].place # origin[1].id
        /\ \A i \in 1..(Len(Probes) - 1) :
              distanceInKm(origin[1].coordinates, Place(Probes[i].place).coordinates)
                <= distanceInKm(origin[1].coordinates,
                                Place(Probes[i + 1].place).coordinates)
        /\ (Len(results) < NearbyLimit) =>
              {Probes[i].place : i \in 1..Len(Probes)}
                = {fallback[i].id : i \in 1..Len(fallback)} \ {origin[1].id}

\* the origin has five candidates, the probes of the three nearest were not
\* accepted by hasConditionsData, and every later probe was
OnlyFourthAndFifth ==
    /\ NearbyDone
    /\ Len(candidates) = 5
    /\ Len(Probes) >= 4
    /\ \A i \in 1..Len(Probes) : Probes[i].accepted <=> i >= 4

\* C9 as stated: with an origin and five candidates of which only the
\* fourth- and fifth-nearest have data, exactly those two are returned, in
\* nearest-first order, after at most 4 probe attempts.
C9_AtMostFourProbes ==
    OnlyFourthAndFifth =>
        /\ Ids(results) = <<candidates[4].id, candidates[5].id>>
        /\ Len(Probes) <= 4

\* C9 amended: exactly those two are returned, in nearest-first order,
\* after 5 probe attempts, one for each candidate.
C9_FiveProbes ==
    OnlyFourthAndFifth =>
        /\ Ids(results) = <<candidates[4].id, candidates[5].id>>
        /\ Ids(suggestions) = Ids(results)
        /\ Len(Probes) = 5
        /\ ProbedIds = Ids(candidates)
        /\ candidates[4].distanceKm <= candidates[5].distanceKm

\* C9 witness: the search ended with the fourth and the fifth candidate
\* after the three nearest were not accepted
C9_Witness ==
    /\ OnlyFourthAndFifth
    /\ Len(results) = 2
    /\ candidates[3].distanceKm < candidates[4].distanceKm

\* C24: the probes of findNearbySpotsWithData are sequential: while one is
\* in flight every earlier one has settled and fewer than 3 candidates have
\* been collected, and the probes are issued to the candidates in ascending
\* distance from the origin, one after the other.
C24_SequentialProbes ==
    /\ \A i \in 1..(Len(candidates) - 1) :
          candidates[i].distanceKm <= candidates[i + 1].distanceKm
    /\ Len(Probes) <= Len(candidates)
    /\ ProbedIds = [i \in 1..Len(Probes) |-> candidates[i].id]
    /\ appPc = "probe" =>
          /\ probeIndex = Len(Probes) + 1
          /\ Len(results) < NearbyLimit
          /\ Len(SelectSeq(Probes, LAMBDA e : e.accepted)) < NearbyLimit
    /\ Len(results) <= NearbyLimit

\* the loop stopped after the three nearest of five candidates had data
C24_Witness ==
    /\ NearbyDone
    /\ Len(candidates) = 5
    /\ Len(Probes) = 3
    /\ Len(results) = 3
    /\ candidates[1].distanceKm < candidates[3].distanceKm

\* C27: whenever the request status is success, the conditions held in the
\* state were fetched for the location that is selected, whatever the order in
\* which overlapping searches, suggestion clicks and retries settle.
C27_SuccessIsForSelected ==
    state.status = "success" =>
        /\ selected # << >>
        /\ state.data[1].place = selected[1].id

\* a behaviour in which a request that was overtaken settles last: the status
\* is success for a place other than the selected one
C27_StaleSuccess ==
    /\ state.status = "success"
    /\ selected # << >>
    /\ state.data[1].place # selected[1].id

\* every call made has run to its end
NoCallInFlight ==
    /\ calls # << >>
    /\ \A c \in 1..Len(calls) : calls[c].pc = "done"

\* C29: once no runSearch / fetchAndScore call is in flight the request
\* status is success, empty or error and never loading, also after a failed
\* aggregation, an empty snapshot or a nearby search that found nothing.
C29_SettlesOutOfLoading ==
    NoCallInFlight => state.status \in {"success", "empty", "error"}

\* a nearby search whose every probe was rejected has ended, and the status
\* is empty
C29_Witness ==
    /\ NoCallInFlight
    /\ \E c \in 1..Len(calls) :
          /\ calls[c].candidates # << >>
          /\ calls[c].results = << >>
    /\ state = Empty("No nearby spots with data. Try another location.")

====
